---- MODULE Spec2Model ----
(***************************************************************************)
(* A model of dongo (a Django-ORM inspired Mongo ODM):                     *)
(*   - the predicate translator  (odm.py, _build_query_from_term)          *)
(*   - the query composer        (odm.py _build_query, queryset.py)        *)
(*   - the deferred write layer  (bulk.py DongoLazyUpdater / DongoBulk)    *)
(* Python strings are modelled as sequences of one-character strings, so   *)
(* that the regular expression and str.replace are computed, not assumed.  *)
(***************************************************************************)
EXTENDS Integers, Sequences, FiniteSets, TLC

VARIABLES
    \* ---- predicate translator (one call of _build_query_from_term)
    term,       \* the keyword term passed in
    val,        \* the value passed in
    out,        \* the (term, val) pair returned
    tpc,        \* "input" before the call, "done" after it
    \* ---- one call of filter(kwargs)
    fkw,        \* the keyword arguments, in the order they were passed
    fq,         \* the (query, opts) pair QuerySet.__init__ stores
    fpc,        \* "input" before the call, "done" after it
    \* ---- query composition
    heap,       \* the query dicts: heap[r] is the dict with reference r
    qs,         \* the QuerySet objects: qs[i].query is a reference into heap
    qlast,      \* the last call on a QuerySet: operands, outcome, heap before
    \* ---- deferred writes
    ents,       \* ents[e]: the in-memory data (_data) of entity e
    ops,        \* ops[o]: the pending list (.ops) of updater or batch o
    log,        \* the calls of coll.bulk_write made so far, in order
    store,      \* the documents of the collection, in natural order
    nops,       \* how many operation objects were created so far
    moved,      \* the operations a merge took out of an updater's list
    blast,      \* the last call on an updater or batch
    \* ---- entities and the collection class
    elast       \* the last call on an entity or on the collection class

termVars == <<term, val, out, tpc>>
filterVars == <<fkw, fq, fpc>>
queryVars == <<heap, qs, qlast>>
bulkVars == <<ents, ops, log, store, nops, moved, blast, elast>>
vars == <<term, val, out, tpc, fkw, fq, fpc, heap, qs, qlast,
          ents, ops, log, store, nops, moved, blast, elast>>

(***************************************************************************)
(* Strings                                                                 *)
(***************************************************************************)
Max(S) == CHOOSE x \in S : \A y \in S : y <= x
Min(S) == CHOOSE x \in S : \A y \in S : x <= y

DUNDER == <<"_", "_">>

\* '__' in s
HasDunder(s) == \E i \in 1..(Len(s) - 1) : s[i] = "_" /\ s[i + 1] = "_"

\* s.startswith('__')
StartsWithDunder(s) == Len(s) >= 2 /\ s[1] = "_" /\ s[2] = "_"

\* s.replace('__', '.'): leftmost, non-overlapping occurrences
RECURSIVE ReplaceDunder(_)
ReplaceDunder(s) ==
    IF Len(s) < 2 THEN s
    ELSE IF s[1] = "_" /\ s[2] = "_"
         THEN <<".">> \o ReplaceDunder(SubSeq(s, 3, Len(s)))
         ELSE <<s[1]>> \o ReplaceDunder(Tail(s))

(***************************************************************************)
(* RE_COMP_EXPR: any prefix (greedy), then '__', then one of the ten      *)
(* operator names, anchored at the end of the term.                        *)
(***************************************************************************)
COMP_OPS ==
    { <<"g","t","e">>, <<"l","t","e">>, <<"g","t">>, <<"l","t">>,
      <<"e","q">>, <<"n","e">>, <<"n","i","n">>, <<"i","n">>,
      <<"r","e","g","e","x">>, <<"e","x","i","s","t","s">> }

\* the lengths k of group 1 for which the rest of the pattern matches
MatchStarts(s, vocab) ==
    { k \in 0..Len(s) :
        /\ k + 2 <= Len(s)
        /\ s[k + 1] = "_" /\ s[k + 2] = "_"
        /\ SubSeq(s, k + 3, Len(s)) \in vocab }

NoMatch == [matched |-> FALSE, term |-> << >>, op |-> << >>]

\* a vocabulary that lost one operator
MatchOpsLost(s) == MatchStarts(s, COMP_OPS \ {<<"n","i","n">>})

\* RE_COMP_EXPR.match(s): group 1 is greedy, so the longest group 1 wins
MatchOps(s) == MatchStarts(s, COMP_OPS)

RE_COMP_EXPR(s) ==
    LET K == MatchOps(s)
    IN  IF K = {} THEN NoMatch
        ELSE LET k == Max(K)
             IN  [matched |-> TRUE,
                  term    |-> SubSeq(s, 1, k),
                  op      |-> SubSeq(s, k + 3, Len(s))]

\* a condition of a query: op = << >> is the bare value v (implicit equality),
\* otherwise the one-entry mapping {op: v}
Plain(v) == [op |-> << >>, v |-> v]
Wrapped(op, v) == [op |-> <<"$">> \o op, v |-> v]

\* DongoCollection._build_query_from_term(term, val)
build_query_from_term(t, v) ==
    IF ~HasDunder(t) THEN [term |-> t, val |-> Plain(v)]
    ELSE LET m == RE_COMP_EXPR(t)
             t2 == IF m.matched THEN m.term ELSE t
             t3 == ReplaceDunder(t2)
         IN  IF ~m.matched THEN [term |-> t3, val |-> Plain(v)]
             ELSE [term |-> t3, val |-> Wrapped(m.op, v)]

(***************************************************************************)
(* Values that keyword arguments carry, and dicts                          *)
(***************************************************************************)
IntV(n)   == [t |-> "int",  n |-> n, items |-> << >>]
BoolV(b)  == [t |-> "bool", n |-> IF b THEN 1 ELSE 0, items |-> << >>]
ListV(xs) == [t |-> "list", n |-> 0, items |-> xs]   \* a list of integers
RefsV(rs) == [t |-> "refs", n |-> 0, items |-> rs]   \* a list of query dicts

\* bool(v)
Truthy(v) == IF v.t \in {"int", "bool"} THEN v.n # 0 ELSE v.items # << >>

EmptyDict == [k \in {} |-> Plain(IntV(0))]

\* d[k] = v
DictSet(d, k, v) == [x \in (DOMAIN d) \cup {k} |-> IF x = k THEN v ELSE d[x]]

OR_KEY  == <<"$","o","r">>
AND_KEY == <<"$","a","n","d">>

S_timeout == <<"t","i","m","e","o","u","t">>
S_no_timeout == <<"n","o","_">> \o S_timeout
S_no_cursor_timeout == <<"n","o","_","c","u","r","s","o","r","_">> \o S_timeout
S_limit == <<"l","i","m","i","t">>

\* KEYWORD_TRANSLATIONS = {'no_timeout': 'no_cursor_timeout'}
KEYWORD_TRANSLATIONS == [k \in {S_no_timeout} |-> S_no_cursor_timeout]

\* DongoCollection._translate_opt(key, val)
translate_opt(key, v) ==
    LET k2 == SubSeq(key, 3, Len(key))
    IN  IF k2 \in DOMAIN KEYWORD_TRANSLATIONS
        THEN [key |-> KEYWORD_TRANSLATIONS[k2], val |-> v]
        ELSE IF k2 = S_timeout
        THEN [key |-> S_no_cursor_timeout, val |-> BoolV(~Truthy(v))]
        ELSE [key |-> k2, val |-> v]

\* a pass of the loop that takes every key for a predicate
BuildStepAllQuery(acc, kv) ==
    LET q == build_query_from_term(kv.k, kv.v)
    IN  [acc EXCEPT !.query = DictSet(acc.query, q.term, q.val)]

\* one pass of the loop of _build_query: acc is (query, opts_kwargs)
BuildStep(acc, kv) ==
    IF StartsWithDunder(kv.k)
    THEN LET o == translate_opt(kv.k, kv.v)
         IN  [acc EXCEPT !.opts = DictSet(acc.opts, o.key, Plain(o.val))]
    ELSE LET q == build_query_from_term(kv.k, kv.v)
         IN  [acc EXCEPT !.query = DictSet(acc.query, q.term, q.val)]

RECURSIVE BuildLoop(_, _)
BuildLoop(acc, kw) ==
    IF kw = << >> THEN acc ELSE BuildLoop(BuildStep(acc, Head(kw)), Tail(kw))

\* DongoCollection._build_query(kwargs): kwargs in the dict's iteration order
build_query(kw) == BuildLoop([query |-> EmptyDict, opts |-> EmptyDict], kw)

Kw(k, v) == [k |-> k, v |-> v]

NoQuery == [query |-> EmptyDict, opts |-> EmptyDict]

NoCall == [n |-> 0, op |-> "none", a |-> 0, b |-> 0, raised |-> FALSE, ret |-> 0,
           pre |-> << >>, preqs |-> << >>]

NoBulkCall == [n |-> 0, op |-> "none", x |-> "", y |-> "", raised |-> FALSE,
               err |-> "", ret |-> "", pre |-> << >>, prelog |-> << >>]

NoEntCall == [op |-> "none", n |-> 0]

IdleFilter == fkw = << >> /\ fq = NoQuery /\ fpc = "idle"
IdleQuery == heap = << >> /\ qs = << >> /\ qlast = NoCall
IdleBulk ==
    /\ ents = << >> /\ ops = << >> /\ log = << >> /\ store = << >>
    /\ nops = 0 /\ moved = {} /\ blast = NoBulkCall /\ elast = NoEntCall

(***************************************************************************)
(* Inputs of the translator: terms put together from pieces that contain   *)
(* the separator, operator names and prefixes of operator names.           *)
(***************************************************************************)
MaxBodyPieces == 3

BodyPieces == { <<"a">>, <<"_">>, DUNDER, <<"n">>, <<"i","n">> }

RECURSIVE Concats(_, _)
Concats(P, n) ==
    IF n = 0 THEN { << >> }
    ELSE LET R == Concats(P, n - 1)
         IN  R \cup { r \o p : r \in R, p \in P }

Tails ==
    { << >> } \cup COMP_OPS
              \cup { DUNDER \o op : op \in COMP_OPS }
              \cup { <<"_">> \o op : op \in COMP_OPS }

Terms == { b \o t : b \in Concats(BodyPieces, MaxBodyPieces), t \in Tails } \ { << >> }

TermVals == {1, 2}

NoOut == [term |-> << >>, val |-> Plain(0)]

InitTerm ==
    /\ term \in Terms
    /\ val \in TermVals
    /\ out = NoOut
    /\ tpc = "input"
    /\ IdleFilter
    /\ IdleQuery
    /\ IdleBulk

\* one call of _build_query_from_term(term, val)
BuildQueryFromTerm ==
    /\ tpc = "input"
    /\ out' = build_query_from_term(term, val)
    /\ tpc' = "done"
    /\ UNCHANGED <<term, val>>
    /\ UNCHANGED <<filterVars, queryVars, bulkVars>>

NextTerm == BuildQueryFromTerm

SpecTerm == InitTerm /\ [][NextTerm]_vars

(***************************************************************************)
(* C1: for every field path p and every op of the vocabulary, the term     *)
(* p__op with value v translates to (p with '__' replaced by '.',          *)
(* {'$op': v}); every term that does not end in '__' followed by an op     *)
(* translates to (term with '__' replaced by '.', v), without a wrapper.   *)
(***************************************************************************)
EndsInOp(s) ==
    \E op \in COMP_OPS :
        /\ Len(s) >= Len(op) + 2
        /\ SubSeq(s, Len(s) - Len(op) + 1, Len(s)) = op
        /\ SubSeq(s, Len(s) - Len(op) - 1, Len(s) - Len(op)) = DUNDER

C1_Translation ==
    tpc = "done" =>
        /\ \A op \in COMP_OPS : \A k \in 0..Len(term) :
              term = SubSeq(term, 1, k) \o DUNDER \o op =>
                  out = [term |-> ReplaceDunder(SubSeq(term, 1, k)),
                         val  |-> [op |-> <<"$">> \o op, v |-> val]]
        /\ ~EndsInOp(term) =>
              out = [term |-> ReplaceDunder(term),
                     val  |-> [op |-> << >>, v |-> val]]

\* a translated term a__n__nin: nested path, operator that has another
\* operator (in) as its suffix
C1_Witness ==
    /\ tpc = "done"
    /\ term = <<"a","_","_","n","_","_","n","i","n">>
    /\ out.term = <<"a",".","n">>
    /\ out.val.op = <<"$","n","i","n">>

(***************************************************************************)
(* The store's reading of a query dict (what coll.find(query) selects).     *)
(* A document is a mapping from field path to integer.                      *)
(***************************************************************************)
MaxVal == 2

F_a == <<"a">>
F_b == <<"b">>
Docs == [{F_a, F_b} -> 0..MaxVal]

InItems(x, xs) == \E i \in 1..Len(xs) : xs[i] = x

\* one entry key: c of a query dict, c not a list of sub-queries
CondHolds(doc, key, c) ==
    LET has == key \in DOMAIN doc
        x   == doc[key]
    IN  CASE c.op = << >>            -> has /\ c.v.t = "int" /\ x = c.v.n
          [] c.op = <<"$","e","q">>  -> has /\ x = c.v.n
          [] c.op = <<"$","n","e">>  -> ~(has /\ x = c.v.n)
          [] c.op = <<"$","g","t">>  -> has /\ x > c.v.n
          [] c.op = <<"$","g","t","e">> -> has /\ x >= c.v.n
          [] c.op = <<"$","l","t">>  -> has /\ x < c.v.n
          [] c.op = <<"$","l","t","e">> -> has /\ x <= c.v.n
          [] c.op = <<"$","i","n">>  -> has /\ InItems(x, c.v.items)
          [] c.op = <<"$","n","i","n">> -> ~(has /\ InItems(x, c.v.items))
          [] c.op = <<"$","e","x","i","s","t","s">> -> has <=> Truthy(c.v)
          [] OTHER -> FALSE

\* the document satisfies the dict d, whose sub-queries are looked up in h;
\* the store rejects an empty $or / $and list, which selects nothing here
RECURSIVE Matches(_, _, _)
Matches(doc, h, d) ==
    \A key \in DOMAIN d :
        IF key = OR_KEY
        THEN \E i \in 1..Len(d[key].v.items) : Matches(doc, h, h[d[key].v.items[i]])
        ELSE IF key = AND_KEY
        THEN /\ d[key].v.items # << >>
             /\ \A i \in 1..Len(d[key].v.items) :
                    Matches(doc, h, h[d[key].v.items[i]])
        ELSE CondHolds(doc, key, d[key])

(***************************************************************************)
(* filter(kwargs): QuerySet.__init__ stores _build_query(kwargs)          *)
(***************************************************************************)
MaxKw == 2

T_a_gt  == F_a \o DUNDER \o <<"g","t">>
T_a_lte == F_a \o DUNDER \o <<"l","t","e">>
T_a_ne  == F_a \o DUNDER \o <<"n","e">>
T_b_gte == F_b \o DUNDER \o <<"g","t","e">>
T_a_in  == F_a \o DUNDER \o <<"i","n">>

\* fields and predicates, two of the fields named as options are
PredTerms == {F_a, F_b, T_a_gt, T_a_lte, T_a_ne, T_b_gte, S_limit, S_no_cursor_timeout}
OptTerms == {DUNDER \o S_timeout, DUNDER \o S_no_timeout, DUNDER \o S_limit}

KwPairs ==
    { Kw(k, IntV(n)) : k \in PredTerms, n \in 0..MaxVal }
        \cup { Kw(k, BoolV(b)) : k \in OptTerms, b \in BOOLEAN }

\* keyword arguments: no key twice
RECURSIVE KwSeqs(_)
KwSeqs(n) ==
    IF n = 0 THEN { << >> }
    ELSE LET R == KwSeqs(n - 1)
         IN  R \cup { Append(r, p) : r \in { x \in R : Len(x) = n - 1 },
                                    p \in KwPairs }

DistinctKeys(kw) == \A i, j \in 1..Len(kw) : i # j => kw[i].k # kw[j].k

IdleTerm == term = << >> /\ val = 0 /\ out = NoOut /\ tpc = "idle"

InitFilter ==
    /\ fkw \in { kw \in KwSeqs(MaxKw) : DistinctKeys(kw) }
    /\ fq = NoQuery
    /\ fpc = "input"
    /\ IdleTerm
    /\ IdleQuery
    /\ IdleBulk

\* QuerySet(klass, kwargs)
Filter ==
    /\ fpc = "input"
    /\ fq' = build_query(fkw)
    /\ fpc' = "done"
    /\ UNCHANGED fkw
    /\ UNCHANGED <<termVars, queryVars, bulkVars>>

NextFilter == Filter

SpecFilter == InitFilter /\ [][NextFilter]_vars

\* the predicates of a keyword set: the keys that are not options
PredIdx(kw) == { i \in 1..Len(kw) : ~StartsWithDunder(kw[i].k) }

\* the document satisfies the i-th predicate taken alone
PredHolds(doc, kw, i) == Matches(doc, << >>, build_query(<<kw[i]>>).query)

(***************************************************************************)
(* C2: filter(predicate_set) builds the conjunction of ALL translated      *)
(* predicates: a document matches the built query iff it satisfies every   *)
(* predicate of the set, also when two predicates constrain the same field *)
(* with different operators.                                               *)
(***************************************************************************)
C2_FilterIsConjunction ==
    fpc = "done" =>
        \A doc \in Docs :
            Matches(doc, << >>, fq.query)
                <=> \A i \in PredIdx(fkw) : PredHolds(doc, fkw, i)

\* the option a key with the double prefix stands for
ClaimedOpt(kv) ==
    LET name == SubSeq(kv.k, 3, Len(kv.k))
    IN  IF name = S_timeout
        THEN [key |-> S_no_cursor_timeout, val |-> BoolV(kv.v.n = 0)]
        ELSE IF name = S_no_timeout
        THEN [key |-> S_no_cursor_timeout, val |-> kv.v]
        ELSE [key |-> name, val |-> kv.v]

\* the keys of a keyword set that are options
OptIdx(kw) == { i \in 1..Len(kw) : StartsWithDunder(kw[i].k) }

(***************************************************************************)
(* C26: build(predicate_set) partitions the keys: every key starting with  *)
(* the double prefix appears only in the returned options, with the prefix *)
(* stripped, timeout mapped to no_cursor_timeout with the boolean inverted *)
(* and no_timeout aliased to no_cursor_timeout unchanged, and never in the *)
(* query fragment; every other key appears only in the query fragment and  *)
(* never in the options.  The entries of the options are exactly those of  *)
(* the prefixed keys and the entries of the query exactly those of the     *)
(* other keys; where two keys give one entry its value is the later one's. *)
(***************************************************************************)
C26_KeysPartitioned ==
    fpc = "done" =>
        /\ DOMAIN fq.opts = { ClaimedOpt(fkw[i]).key : i \in OptIdx(fkw) }
        /\ DOMAIN fq.query =
              { build_query_from_term(fkw[i].k, fkw[i].v).term : i \in PredIdx(fkw) }
        /\ \A i \in OptIdx(fkw) :
              (\A j \in OptIdx(fkw) :
                  j > i => ClaimedOpt(fkw[j]).key # ClaimedOpt(fkw[i]).key)
              => fq.opts[ClaimedOpt(fkw[i]).key] = Plain(ClaimedOpt(fkw[i]).val)
        /\ \A i \in PredIdx(fkw) :
              LET q == build_query_from_term(fkw[i].k, fkw[i].v)
              IN  (\A j \in PredIdx(fkw) :
                      j > i => build_query_from_term(fkw[j].k, fkw[j].v).term # q.term)
                  => fq.query[q.term] = q.val

\* a field named limit and the option __timeout were built into a query
\* with the field and options with the inverted flag
C26_Witness ==
    /\ fpc = "done"
    /\ fkw = <<Kw(S_limit, IntV(1)), Kw(DUNDER \o S_timeout, BoolV(TRUE))>>
    /\ DOMAIN fq.query = {S_limit}
    /\ fq.opts = (S_no_cursor_timeout :> Plain(BoolV(FALSE)))

(***************************************************************************)
(* Query composition: QuerySet objects over shared, mutable query dicts.   *)
(* A QuerySet holds a reference to its dict; composing stores references   *)
(* to the operands' dicts in a list, as the Python code does.              *)
(***************************************************************************)
MaxQS == 3          \* QuerySet objects created in a run
MaxChildren == 2    \* sub-queries appended under one root
MaxCalls == 5       \* calls made in a run

Range(f) == { f[x] : x \in DOMAIN f }

\* the dicts a dict refers to in its $or / $and list
RefsOf(d) == UNION { Range(d[k].v.items) : k \in (DOMAIN d) \cap {OR_KEY, AND_KEY} }

\* the list under the root of a dict, empty for a dict without $or / $and
Children(d) ==
    IF OR_KEY \in DOMAIN d THEN d[OR_KEY].v.items
    ELSE IF AND_KEY \in DOMAIN d THEN d[AND_KEY].v.items
    ELSE << >>

RECURSIVE ReachN(_, _, _)
ReachN(h, S, n) ==
    IF n = 0 THEN S
    ELSE ReachN(h, S \cup UNION { RefsOf(h[r]) : r \in S }, n - 1)

\* the dicts reachable from dict r
Reach(h, r) == ReachN(h, {r}, Len(h))

\* the keyword sets filter() is called with
FilterChoices ==
    { <<Kw(F_a, IntV(1))>>, <<Kw(F_a, IntV(2))>>, <<Kw(T_a_lte, IntV(0))>> }

QS(r, opts, made, kw) == [query |-> r, opts |-> opts, made |-> made, kw |-> kw]

Call(op, a, b, raised, ret) ==
    [n |-> qlast.n + 1, op |-> op, a |-> a, b |-> b, raised |-> raised,
     ret |-> ret, pre |-> heap, preqs |-> qs]

\* self.query[op].append(other.query)
AppendChild(h, ra, op, rb) ==
    [h EXCEPT ![ra] = [@ EXCEPT ![op] = [@ EXCEPT !.v.items = Append(@, rb)]]]

\* the operand goes in front of the children instead of behind them
add_prepend(h, ra, rb) ==
    LET q == h[ra]
        op == IF OR_KEY \in DOMAIN q THEN OR_KEY ELSE AND_KEY
    IN  IF op \in DOMAIN q
        THEN [raised |-> FALSE,
              heap |-> [h EXCEPT ![ra] = [@ EXCEPT ![op] =
                          [@ EXCEPT !.v.items = <<rb>> \o @]]]]
        ELSE [raised |-> TRUE, heap |-> h]

\* a composition that refuses an operand typed otherwise than the receiver
add_strict(h, ra, rb) ==
    LET q == h[ra]
        o == h[rb]
        op == IF OR_KEY \in DOMAIN q THEN OR_KEY ELSE AND_KEY
        other == IF op = OR_KEY THEN AND_KEY ELSE OR_KEY
    IN  IF op \in DOMAIN q /\ other \notin DOMAIN o
        THEN [raised |-> FALSE, heap |-> AppendChild(h, ra, op, rb)]
        ELSE [raised |-> TRUE, heap |-> h]

\* QuerySet.__add__(self, other) on the dicts ra = self.query, rb = other.query
QuerySet_add(h, ra, rb) ==
    LET q == h[ra]
    IN  IF OR_KEY \in DOMAIN q
        THEN [raised |-> FALSE, heap |-> AppendChild(h, ra, OR_KEY, rb)]
        ELSE IF AND_KEY \in DOMAIN q
        THEN [raised |-> FALSE, heap |-> AppendChild(h, ra, AND_KEY, rb)]
        ELSE [raised |-> TRUE, heap |-> h]      \* ValueError

\* the operands in the wrong order
binop_swapped(key, ra, rb) == <<Kw(key, RefsV(<<rb, ra>>))>>

\* the keyword set __or__ / __and__ hand to QuerySet(): {key: [self.query, other.query]}
QuerySet_binop(key, ra, rb) == <<Kw(key, RefsV(<<ra, rb>>))>>

InitQuery ==
    /\ heap = << >>
    /\ qs = << >>
    /\ qlast = NoCall
    /\ IdleTerm
    /\ IdleFilter
    /\ IdleBulk

\* DongoCollection.filter(kw)
DoFilter(kw) ==
    /\ qlast.n < MaxCalls
    /\ Len(qs) < MaxQS
    /\ LET b == build_query(kw)
           r == Len(heap) + 1
       IN  /\ heap' = Append(heap, b.query)
           /\ qs' = Append(qs, QS(r, b.opts, "filter", kw))
           /\ qlast' = Call("filter", 0, 0, FALSE, Len(qs) + 1)
    /\ UNCHANGED <<termVars, filterVars, bulkVars>>

\* DongoCollection.filter_or() / filter_and(): QuerySet._filter_or / _filter_and
DoFilterRoot(key, made) ==
    /\ qlast.n < MaxCalls
    /\ Len(qs) < MaxQS
    /\ LET b == build_query(<< >>)
           r == Len(heap) + 1
       IN  /\ heap' = Append(heap, DictSet(EmptyDict, key, Plain(RefsV(<< >>))))
           /\ qs' = Append(qs, QS(r, b.opts, made, << >>))
           /\ qlast' = Call(made, 0, 0, FALSE, Len(qs) + 1)
    /\ UNCHANGED <<termVars, filterVars, bulkVars>>

DoFilterOr == DoFilterRoot(OR_KEY, "filter_or")
DoFilterAnd == DoFilterRoot(AND_KEY, "filter_and")

\* a + b, a += b
DoAdd(a, b) ==
    /\ qlast.n < MaxCalls
    /\ Len(Children(heap[qs[a].query])) < MaxChildren
    /\ qs[a].query \notin Reach(heap, qs[b].query)      \* no dict inside itself
    /\ LET res == QuerySet_add(heap, qs[a].query, qs[b].query)
       IN  /\ heap' = res.heap
           /\ qlast' = Call("add", a, b, res.raised, IF res.raised THEN 0 ELSE a)
    /\ UNCHANGED qs
    /\ UNCHANGED <<termVars, filterVars, bulkVars>>

\* a | b (key $or), a & b (key $and)
DoBinop(key, made, a, b) ==
    /\ qlast.n < MaxCalls
    /\ Len(qs) < MaxQS
    /\ LET built == build_query(QuerySet_binop(key, qs[a].query, qs[b].query))
           r == Len(heap) + 1
       IN  /\ heap' = Append(heap, built.query)
           /\ qs' = Append(qs, QS(r, built.opts, made, << >>))
           /\ qlast' = Call(made, a, b, FALSE, Len(qs) + 1)
    /\ UNCHANGED <<termVars, filterVars, bulkVars>>

DoOr(a, b) == DoBinop(OR_KEY, "or", a, b)
DoAnd(a, b) == DoBinop(AND_KEY, "and", a, b)

NextQuery ==
    \/ \E kw \in FilterChoices : DoFilter(kw)
    \/ DoFilterOr
    \/ DoFilterAnd
    \/ \E a, b \in 1..Len(qs) : DoAdd(a, b)
    \/ \E a, b \in 1..Len(qs) : DoOr(a, b)
    \/ \E a, b \in 1..Len(qs) : DoAnd(a, b)

SpecQuery == InitQuery /\ [][NextQuery]_vars

Typed(d) == OR_KEY \in DOMAIN d \/ AND_KEY \in DOMAIN d
RootKey(d) == IF OR_KEY \in DOMAIN d THEN OR_KEY ELSE AND_KEY

\* the call was a + b with both roots typed, one $or and the other $and
MismatchedAdd ==
    /\ qlast.op = "add"
    /\ Typed(qlast.pre[qs[qlast.a].query])
    /\ Typed(qlast.pre[qs[qlast.b].query])
    /\ RootKey(qlast.pre[qs[qlast.a].query]) # RootKey(qlast.pre[qs[qlast.b].query])

(***************************************************************************)
(* C3 as stated: composing a node whose root is typed OR with one whose    *)
(* root is typed AND (or the reverse) raises a composition error and       *)
(* appends nothing.                                                        *)
(***************************************************************************)
C3_MismatchRaises ==
    MismatchedAdd => qlast.raised /\ heap = qlast.pre

(***************************************************************************)
(* C3 as amended: composing a node whose root is typed OR with one whose   *)
(* root is typed AND (or the reverse) raises nothing and appends the       *)
(* operand's query as the last child of the receiver's root; a composition *)
(* raises only when the receiver has neither root; and every query dict    *)
(* keeps the root it was created with through every later call.            *)
(***************************************************************************)
C3_MismatchAppends ==
    /\ MismatchedAdd =>
          LET ra == qs[qlast.a].query
              rb == qs[qlast.b].query
          IN  /\ ~qlast.raised
              /\ Children(heap[ra]) = Append(Children(qlast.pre[ra]), rb)
    /\ (qlast.op = "add" /\ qlast.raised) => ~Typed(qlast.pre[qs[qlast.a].query])
    /\ \A r \in DOMAIN qlast.pre : DOMAIN heap[r] = DOMAIN qlast.pre[r]

\* an $and-rooted node that already has a child was appended under an $or root
C3_Witness ==
    /\ MismatchedAdd
    /\ ~qlast.raised
    /\ OR_KEY \in DOMAIN heap[qs[qlast.a].query]
    /\ Children(heap[qs[qlast.b].query]) # << >>

(***************************************************************************)
(* C4: a + b on a receiver a whose query has neither an AND nor an OR root *)
(* fails with an error and leaves a's query unchanged; on a receiver with  *)
(* a typed root it appends b's query as the last child of that root,       *)
(* changes nothing else in a, and returns the same object a.               *)
(***************************************************************************)
C4_Compose ==
    qlast.op = "add" =>
        LET ra == qs[qlast.a].query
            rb == qs[qlast.b].query
            q  == qlast.pre[ra]
        IN  /\ ~Typed(q) => (qlast.raised /\ heap = qlast.pre /\ qs = qlast.preqs)
            /\ Typed(q) =>
                  /\ ~qlast.raised
                  /\ qlast.ret = qlast.a
                  /\ heap[ra] = DictSet(q, RootKey(q),
                        Plain(RefsV(Append(q[RootKey(q)].v.items, rb))))
                  /\ \A r \in DOMAIN heap : r # ra => heap[r] = qlast.pre[r]
                  /\ DOMAIN heap = DOMAIN qlast.pre
                  /\ qs = qlast.preqs

\* a second child was appended behind the first, and it is another dict
C4_Witness ==
    /\ qlast.op = "add"
    /\ ~qlast.raised
    /\ Len(Children(heap[qs[qlast.a].query])) = 2
    /\ Children(heap[qs[qlast.a].query])[1] # Children(heap[qs[qlast.a].query])[2]

\* a dict built by filter() from one predicate
OnePred(r) ==
    \E i \in DOMAIN qs :
        /\ qs[i].query = r /\ qs[i].made = "filter"
        /\ Len(qs[i].kw) = 1 /\ ~StartsWithDunder(qs[i].kw[1].k)

KwOf(r) == (CHOOSE i \in DOMAIN qs : qs[i].query = r)

\* the predicates of the children of dict r, as one keyword set
RECURSIVE KwCat(_)
KwCat(rs) == IF rs = << >> THEN << >> ELSE qs[KwOf(Head(rs))].kw \o KwCat(Tail(rs))

(***************************************************************************)
(* C5: a node built as filter_and() followed by += filter(p1), ...,        *)
(* += filter(pn) matches exactly the documents matched by                  *)
(* filter(p1, ..., pn); a node built as filter_or() followed by            *)
(* += filter(f=v1), += filter(f=v2) matches exactly the documents matched  *)
(* by filter(f__in=[v1, v2]).                                              *)
(***************************************************************************)
C5_AndHalf ==
    \A i \in DOMAIN qs :
        LET d  == heap[qs[i].query]
            cs == Children(d)
        IN  ( /\ qs[i].made = "filter_and"
              /\ cs # << >>
              /\ \A j \in 1..Len(cs) : OnePred(cs[j])
              /\ DistinctKeys(KwCat(cs)) )
            => \A doc \in Docs :
                  Matches(doc, heap, d)
                      <=> Matches(doc, << >>, build_query(KwCat(cs)).query)

C5_OrHalf ==
    \A i \in DOMAIN qs :
        LET d  == heap[qs[i].query]
            cs == Children(d)
            k1 == qs[KwOf(cs[1])].kw[1]
            k2 == qs[KwOf(cs[2])].kw[1]
        IN  ( /\ qs[i].made = "filter_or"
              /\ Len(cs) = 2
              /\ \A j \in 1..2 : OnePred(cs[j])
              /\ k1.k = k2.k /\ ~HasDunder(k1.k) )
            => \A doc \in Docs :
                  Matches(doc, heap, d)
                      <=> Matches(doc, << >>,
                            build_query(<<Kw(k1.k \o DUNDER \o <<"i","n">>,
                                             ListV(<<k1.v.n, k2.v.n>>))>>).query)

C5_ComposedEquivalent == C5_AndHalf /\ C5_OrHalf

\* filter_or() += filter(a=1) += filter(a=2) was built
C5_OrReached ==
    \E i \in DOMAIN qs :
        /\ qs[i].made = "filter_or"
        /\ Len(Children(heap[qs[i].query])) = 2
        /\ \A j \in 1..2 : OnePred(Children(heap[qs[i].query])[j])
        /\ qs[KwOf(Children(heap[qs[i].query])[1])].kw = <<Kw(F_a, IntV(1))>>
        /\ qs[KwOf(Children(heap[qs[i].query])[2])].kw = <<Kw(F_a, IntV(2))>>

(***************************************************************************)
(* C6: a | b and a & b always return a new Query Node whose query is       *)
(* exactly {'$or': [a.query, b.query]} / {'$and': [a.query, b.query]} in   *)
(* operand order, and leave a.query and b.query unchanged, for every pair  *)
(* of nodes a, b (flat or already composed).                               *)
(***************************************************************************)
C6_BinopNew ==
    qlast.op \in {"or", "and"} =>
        LET key == IF qlast.op = "or" THEN OR_KEY ELSE AND_KEY
            n   == qs[qlast.ret]
        IN  /\ ~qlast.raised
            /\ qlast.ret \notin DOMAIN qlast.preqs
            /\ n.query \notin DOMAIN qlast.pre
            /\ \A i \in DOMAIN qlast.preqs : qs[i] = qlast.preqs[i]
            /\ DOMAIN heap[n.query] = {key}
            /\ heap[n.query][key] =
                   Plain(RefsV(<<qs[qlast.a].query, qs[qlast.b].query>>))
            /\ \A r \in DOMAIN qlast.pre : heap[r] = qlast.pre[r]

\* a composed node and a flat one were joined, composed operand second
C6_Witness ==
    /\ qlast.op \in {"or", "and"}
    /\ qlast.a # qlast.b
    /\ ~Typed(heap[qs[qlast.a].query])
    /\ Children(heap[qs[qlast.b].query]) # << >>

\* the query a dict stands for: the dicts its $or / $and list refers to
\* written out in place
RECURSIVE Expand(_, _)
Expand(h, r) ==
    [k \in DOMAIN h[r] |->
        IF k \in {OR_KEY, AND_KEY}
        THEN [i \in DOMAIN h[r][k].v.items |-> Expand(h, h[r][k].v.items[i])]
        ELSE h[r][k]]

\* the nodes made by a | b or a & b with the receiver of the last call as
\* an operand
NodesOver(a) ==
    { r \in 1..Len(qlast.preqs) :
        /\ qs[r].made \in {"or", "and"}
        /\ r # a
        /\ qs[a].query \in Range(Children(qlast.pre[qs[r].query])) }

(***************************************************************************)
(* C29: a Query Node returned by a | b or a & b is independent of its      *)
(* operands: a later in-place composition on a or b (a += c, when a has a  *)
(* typed AND/OR root) does not change the query of the node returned       *)
(* before.                                                                 *)
(***************************************************************************)
C29_NodeIndependent ==
    (qlast.op = "add" /\ ~qlast.raised) =>
        \A r \in NodesOver(qlast.a) :
            Expand(heap, qs[r].query) = Expand(qlast.pre, qs[r].query)

\* the dict of the node itself is left alone by the composition
C29_NodeDictUnchanged ==
    (qlast.op = "add" /\ ~qlast.raised) =>
        \A r \in NodesOver(qlast.a) : heap[qs[r].query] = qlast.pre[qs[r].query]

(***************************************************************************)
(* Entities: the in-memory data of a DongoCollection instance is a tree of *)
(* dicts, held as a mapping from path (sequence of keys) to node; the root *)
(* dict is the empty path and has no entry.                                *)
(***************************************************************************)
S_id   == <<"_","i","d">>
S_uuid == <<"_","u","u","i","d">>
S_x    == <<"x">>

Leaf(v) == [dict |-> FALSE, v |-> v]
DictNode == [dict |-> TRUE, v |-> IntV(0)]

\* _data after a refresh that found no document: None, told from every dict
\* by a key that no dict has
NoneData == (<< <<"None">> >> :> DictNode)

HasDot(s) == \E i \in 1..Len(s) : s[i] = "."

\* index.split('.')
RECURSIVE SplitDot(_)
SplitDot(s) ==
    IF ~HasDot(s) THEN <<s>>
    ELSE LET i == Min({ j \in 1..Len(s) : s[j] = "." })
         IN  <<SubSeq(s, 1, i - 1)>> \o SplitDot(SubSeq(s, i + 1, Len(s)))

IsPrefix(p, q) == Len(p) <= Len(q) /\ SubSeq(q, 1, Len(p)) = p

\* d[key] = value for the dict at path parent: what hung under the key is gone
PutLeaf(data, path, v) ==
    LET keep == { q \in DOMAIN data : ~IsPrefix(path, q) }
    IN  [q \in keep \cup {path} |-> IF q = path THEN Leaf(v) ELSE data[q]]

\* a set that takes the whole index as one key
set_nested_top(data, index, v) ==
    [raised |-> FALSE, err |-> "", data |-> PutLeaf(data, <<index>>, v)]

\* a set that makes the missing dicts on its way
set_nested_create(data, index, v) ==
    LET keys == SplitDot(index)
        made == { SubSeq(keys, 1, i) : i \in 1..(Len(keys) - 1) }
        base == PutLeaf(data, keys, v)
    IN  [raised |-> FALSE, err |-> "",
         data |-> [q \in DOMAIN base \cup made |->
                     IF q \in made THEN DictNode ELSE base[q]]]

\* DongoCollection._set_nested(index, value): KeyError / TypeError when a key
\* before the last is absent or does not hold a dict
set_nested(data, index, v) ==
    IF ~HasDot(index)
    THEN [raised |-> FALSE, err |-> "", data |-> PutLeaf(data, <<index>>, v)]
    ELSE LET keys == SplitDot(index)
             parent == SubSeq(keys, 1, Len(keys) - 1)
             walk == \A i \in 1..Len(parent) :
                        /\ SubSeq(parent, 1, i) \in DOMAIN data
                        /\ data[SubSeq(parent, 1, i)].dict
             miss == \E i \in 1..Len(parent) :
                        /\ SubSeq(parent, 1, i) \notin DOMAIN data
                        /\ \A j \in 1..(i - 1) : data[SubSeq(parent, 1, j)].dict
         IN  IF walk
             THEN [raised |-> FALSE, err |-> "", data |-> PutLeaf(data, keys, v)]
             ELSE [raised |-> TRUE, data |-> data,
                   err |-> IF miss THEN "KeyError" ELSE "TypeError"]

\* DongoCollection.__getitem__(index): the node at the path; KeyError /
\* TypeError when a key is absent or a value before the last is not a dict
getitem(data, index) ==
    LET keys == SplitDot(index)
        walk == \A i \in 1..Len(keys) :
                   /\ SubSeq(keys, 1, i) \in DOMAIN data
                   /\ i < Len(keys) => data[SubSeq(keys, 1, i)].dict
    IN  IF walk THEN [raised |-> FALSE, node |-> data[keys]]
        ELSE [raised |-> TRUE, node |-> DictNode]

\* a containment check that takes the whole field as one key
contains_top(data, field) == <<field>> \in DOMAIN data

\* DongoCollection.__contains__(field): without a dot, field in self._data;
\* with dots, the walk that gives up on a value that is not a dict or on a
\* key that is not there
contains(data, field) ==
    LET RECURSIVE Walk(_, _)
        Walk(at, keys) ==
            IF keys = << >> THEN TRUE
            ELSE IF at # << >> /\ ~data[at].dict THEN FALSE
            ELSE IF Append(at, Head(keys)) \notin DOMAIN data THEN FALSE
            ELSE Walk(Append(at, Head(keys)), Tail(keys))
    IN  IF ~HasDot(field) THEN <<field>> \in DOMAIN data
        ELSE Walk(<< >>, SplitDot(field))

\* DongoCollection.get(field, default)
get(data, field, default) ==
    IF contains(data, field) THEN getitem(data, field)
    ELSE [raised |-> FALSE, node |-> Leaf(default)]

\* a selector that prefers the secondary identifier
inst_to_query_uuid_first(data) ==
    IF <<S_uuid>> \in DOMAIN data
    THEN [raised |-> FALSE, err |-> "",
          q |-> DictSet(EmptyDict, S_uuid, Plain(data[<<S_uuid>>].v))]
    ELSE IF <<S_id>> \in DOMAIN data
    THEN [raised |-> FALSE, err |-> "",
          q |-> DictSet(EmptyDict, S_id, Plain(data[<<S_id>>].v))]
    ELSE [raised |-> TRUE, err |-> "DongoResultError", q |-> EmptyDict]

\* _inst_to_query(instance)
inst_to_query(data) ==
    IF data = NoneData                  \* '_id' in None
    THEN [raised |-> TRUE, err |-> "TypeError", q |-> EmptyDict]
    ELSE IF <<S_id>> \in DOMAIN data
    THEN [raised |-> FALSE, err |-> "",
          q |-> DictSet(EmptyDict, S_id, Plain(data[<<S_id>>].v))]
    ELSE IF <<S_uuid>> \in DOMAIN data
    THEN [raised |-> FALSE, err |-> "",
          q |-> DictSet(EmptyDict, S_uuid, Plain(data[<<S_uuid>>].v))]
    ELSE [raised |-> TRUE, err |-> "DongoResultError", q |-> EmptyDict]

\* DongoCollection._translate_dunder_dict(kwargs): the result of key.replace
\* is dropped, so every key is copied as it is
RECURSIVE translate_dunder_dict(_)
translate_dunder_dict(kw) ==
    IF kw = << >> THEN EmptyDict
    ELSE DictSet(translate_dunder_dict(SubSeq(kw, 1, Len(kw) - 1)),
                 kw[Len(kw)].k, Plain(kw[Len(kw)].v))

\* the keyword arguments as the dict the callee receives
RECURSIVE KwDict(_)
KwDict(kw) ==
    IF kw = << >> THEN EmptyDict
    ELSE DictSet(KwDict(SubSeq(kw, 1, Len(kw) - 1)),
                 kw[Len(kw)].k, Plain(kw[Len(kw)].v))

(***************************************************************************)
(* The store's writes: what coll.bulk_write(ops) and coll.update do to the *)
(* documents.  A stored document has the shape of an entity's data.        *)
(***************************************************************************)
\* the top-level integer fields of a document, as the query reading sees it
FlatDoc(data) ==
    [k \in { key \in { p[1] : p \in { q \in DOMAIN data : Len(q) = 1 } } :
                ~data[<<key>>].dict } |-> data[<<k>>].v.n]

StoreMatches(doc, flt) == Matches(FlatDoc(doc), << >>, flt)

MatchIdx(st, flt) == { i \in DOMAIN st : StoreMatches(st[i], flt) }

RemoveAt(st, I) ==
    LET keep == { i \in DOMAIN st : i \notin I }
        RECURSIVE Pick(_)
        Pick(i) == IF i > Len(st) THEN << >>
                   ELSE (IF i \in keep THEN <<st[i]>> ELSE << >>) \o Pick(i + 1)
    IN  Pick(1)

\* {'$set': {key: v}} on one document: the store makes the missing embedded
\* documents and refuses to go through a value that is not a document
mongo_set(doc, key, v) ==
    LET keys == SplitDot(key)
        blocked == \E i \in 1..(Len(keys) - 1) :
                      /\ SubSeq(keys, 1, i) \in DOMAIN doc
                      /\ ~doc[SubSeq(keys, 1, i)].dict
        made == { SubSeq(keys, 1, i) : i \in 1..(Len(keys) - 1) } \ DOMAIN doc
        d1 == PutLeaf(doc, keys, v)
    IN  IF blocked THEN [raised |-> TRUE, data |-> doc]
        ELSE [raised |-> FALSE,
              data |-> [q \in DOMAIN d1 \cup made |->
                           IF q \in made THEN DictNode ELSE d1[q]]]

\* an increment that overwrites the field with the amount
mongo_inc_overwrite(doc, key, d) == mongo_set(doc, key, d)

\* {'$inc': {key: d}} on one document: an absent field starts from 0
mongo_inc(doc, key, d) ==
    LET keys == SplitDot(key)
    IN  IF keys \in DOMAIN doc
        THEN IF doc[keys].dict \/ doc[keys].v.t # "int"
             THEN [raised |-> TRUE, data |-> doc]
             ELSE mongo_set(doc, key, IntV(doc[keys].v.n + d.n))
        ELSE mongo_set(doc, key, d)

\* all the fields of an update document, one after the other
RECURSIVE mongo_update(_, _, _)
mongo_update(doc, mod, fields) ==
    IF DOMAIN fields = {} THEN [raised |-> FALSE, data |-> doc]
    ELSE LET k == CHOOSE x \in DOMAIN fields : TRUE
             rest == [x \in DOMAIN fields \ {k} |-> fields[x]]
             one == IF mod = "$inc" THEN mongo_inc(doc, k, fields[k].v)
                    ELSE mongo_set(doc, k, fields[k].v)
         IN  IF one.raised THEN one ELSE mongo_update(one.data, mod, rest)

\* the replacement document of ReplaceOne: the fields given, under the old _id
Replacement(old, fields) ==
    [p \in { <<k>> : k \in DOMAIN fields } \cup ({<<S_id>>} \cap DOMAIN old) |->
        IF p = <<S_id>> /\ S_id \notin DOMAIN fields THEN old[p]
        ELSE Leaf(fields[p[1]].v)]

\* one operation of a bulk write; an update the store refuses changes nothing
apply_op(st, o) ==
    LET hit == MatchIdx(st, o.filter)
        i == Min(hit)
    IN  IF hit = {} THEN st
        ELSE CASE o.kind = "UpdateOne" ->
                      [st EXCEPT ![i] = mongo_update(st[i], o.mod, o.doc).data]
               [] o.kind = "ReplaceOne" ->
                      [st EXCEPT ![i] = Replacement(st[i], o.doc)]
               [] o.kind = "DeleteOne" -> RemoveAt(st, {i})
               [] OTHER -> RemoveAt(st, hit)

\* coll.bulk_write(ops): the operations in order
RECURSIVE bulk_write(_, _)
bulk_write(st, os) ==
    IF os = << >> THEN st ELSE bulk_write(apply_op(st, Head(os)), Tail(os))

\* coll.find_one(query)
find_one(st, flt) ==
    LET hit == MatchIdx(st, flt)
    IN  IF hit = {} THEN NoneData ELSE st[Min(hit)]

(***************************************************************************)
(* Deferred writes: DongoLazyUpdater and DongoBulk                         *)
(***************************************************************************)
MaxOps == 2         \* operation objects created in a run
MaxBulkCalls == 4   \* calls made in a run

Lazies == {"L1", "L2"}
Bulks == {"B1", "B2"}
Objects == Lazies \cup Bulks
Entities == {"E1", "E2", "E3"}

\* DongoLazyUpdater.instance
InstanceOf(l) == CASE l = "L1" -> "E1" [] l = "L2" -> "E2" [] OTHER -> "E3"

\* E1 was inserted, E2 was given a _uuid and never inserted, E3 has neither
InitEnts ==
    [e \in Entities |->
        CASE e = "E1" -> (<<S_id>> :> Leaf(IntV(1))) @@ (<<S_x>> :> Leaf(IntV(0)))
          [] e = "E2" -> (<<S_uuid>> :> Leaf(IntV(2))) @@ (<<S_x>> :> Leaf(IntV(0)))
          [] OTHER    -> (<<S_x>> :> Leaf(IntV(0)))]

\* pymongo UpdateOne / ReplaceOne / DeleteOne / DeleteMany objects; id tells
\* two objects with the same content apart
Op(id, kind, flt, mod, doc) ==
    [id |-> id, kind |-> kind, filter |-> flt, mod |-> mod, doc |-> doc]

Ids(os) == { os[i].id : i \in 1..Len(os) }

BCall(op, x, y, raised, ret) ==
    [n |-> blast.n + 1, op |-> op, x |-> x, y |-> y, raised |-> raised,
     err |-> "", ret |-> ret, pre |-> ops, prelog |-> log]

\* a call that ended in the exception err
BRaise(op, x, y, err) == [BCall(op, x, y, TRUE, "") EXCEPT !.err = err]

\* the donor keeps its list
transfer_keep(o, to, from) == [o EXCEPT ![to] = @ \o o[from]]

\* the donor's operations go in front of the recipient's
transfer_front(o, to, from) ==
    LET o1 == [o EXCEPT ![to] = o[from] \o @]
    IN  [o1 EXCEPT ![from] = << >>]

\* self.ops.extend(other.ops); other.ops = []
Transfer(o, to, from) ==
    LET o1 == [o EXCEPT ![to] = @ \o o[from]]
    IN  [o1 EXCEPT ![from] = << >>]

\* DongoLazyUpdater.__add__(self, other): DongoBulk() is called without the
\* klass its __init__ requires, so adding two updaters ends in a TypeError
lazy_add(o, x, y) ==
    IF y \in Bulks
    THEN [raised |-> FALSE, ops |-> Transfer(o, y, x), ret |-> y]
    ELSE [raised |-> TRUE, ops |-> o, ret |-> ""]

\* DongoBulk.__add__(self, other)
bulk_add(o, x, y) ==
    IF y \in Lazies \cup Bulks
    THEN [raised |-> FALSE, ops |-> Transfer(o, x, y), ret |-> x]
    ELSE [raised |-> TRUE, ops |-> o, ret |-> ""]

\* DongoBulk.take(self, lazy)
bulk_take(o, x, y) == [raised |-> FALSE, ops |-> Transfer(o, x, y), ret |-> ""]

\* x + y
Plus(o, x, y) == IF x \in Lazies THEN lazy_add(o, x, y) ELSE bulk_add(o, x, y)

InitBulk ==
    /\ ents = InitEnts
    /\ ops = [o \in Objects |-> << >>]
    /\ log = << >>
    /\ store = <<InitEnts["E1"]>>
    /\ nops = 0
    /\ moved = {}
    /\ blast = NoBulkCall
    /\ elast = NoEntCall
    /\ IdleTerm
    /\ IdleFilter
    /\ IdleQuery

CanCall == blast.n < MaxBulkCalls
CanMake == nops < MaxOps

\* lazy[attr] = v
LazySetItem(l, attr, v) ==
    /\ CanCall /\ CanMake
    /\ LET e == InstanceOf(l)
           q == inst_to_query(ents[e])
           upd == Op(nops + 1, "UpdateOne", q.q, "$set",
                     DictSet(EmptyDict, attr, Plain(v)))
           sn == set_nested(ents[e], attr, v)
       IN  IF q.raised \/ sn.raised
           THEN /\ blast' = BRaise("setitem", l, "",
                                   IF q.raised THEN q.err ELSE sn.err)
                /\ UNCHANGED <<ents, ops, nops>>
           ELSE /\ ents' = [ents EXCEPT ![e] = sn.data]
                /\ ops' = [ops EXCEPT ![l] = Append(@, upd)]
                /\ nops' = nops + 1
                /\ blast' = BCall("setitem", l, "", FALSE, "")
    /\ UNCHANGED <<log, store, moved>>
    /\ UNCHANGED <<termVars, filterVars, queryVars, elast>>

\* the loop of set(): _set_nested for each key, until one raises
RECURSIVE SetLoop(_, _)
SetLoop(acc, kw) ==
    IF kw = << >> \/ acc.raised THEN acc
    ELSE SetLoop(set_nested(acc.data, Head(kw).k, Head(kw).v), Tail(kw))

\* the keys of a dict built from kw, in its iteration order
RECURSIVE DictOrder(_)
DictOrder(kw) ==
    IF kw = << >> THEN << >>
    ELSE LET r == DictOrder(SubSeq(kw, 1, Len(kw) - 1))
             l == kw[Len(kw)]
         IN  IF \E i \in 1..Len(r) : r[i].k = l.k
             THEN [i \in 1..Len(r) |-> IF r[i].k = l.k THEN l ELSE r[i]]
             ELSE Append(r, l)

\* lazy.set(kw)
LazySet(l, kw) ==
    /\ CanCall /\ CanMake
    /\ LET e == InstanceOf(l)
           q == inst_to_query(ents[e])
           dct == translate_dunder_dict(kw)
           sl == SetLoop([raised |-> FALSE, err |-> "", data |-> ents[e]], DictOrder(kw))
           upd == Op(nops + 1, "UpdateOne", q.q, "$set", KwDict(kw))
       IN  IF q.raised
           THEN /\ blast' = BRaise("set", l, "", q.err)
                /\ UNCHANGED <<ents, ops, nops>>
           ELSE IF sl.raised
           THEN /\ ents' = [ents EXCEPT ![e] = sl.data]
                /\ blast' = BRaise("set", l, "", sl.err)
                /\ UNCHANGED <<ops, nops>>
           ELSE /\ ents' = [ents EXCEPT ![e] = sl.data]
                /\ ops' = [ops EXCEPT ![l] = Append(@, upd)]
                /\ nops' = nops + 1
                /\ blast' = BCall("set", l, "", FALSE, "")
    /\ UNCHANGED <<log, store, moved>>
    /\ UNCHANGED <<termVars, filterVars, queryVars, elast>>

\* bulk.update_one / inc_one / replace_one (instance, kw), bulk.delete_one(instance)
BulkOne(b, name, kind, mod, e, kw) ==
    /\ CanCall /\ CanMake
    /\ LET q == inst_to_query(ents[e])
           o == Op(nops + 1, kind, q.q, mod, KwDict(kw))
       IN  IF q.raised
           THEN /\ blast' = BRaise(name, b, e, q.err)
                /\ UNCHANGED <<ops, nops>>
           ELSE /\ ops' = [ops EXCEPT ![b] = Append(@, o)]
                /\ nops' = nops + 1
                /\ blast' = BCall(name, b, e, FALSE, "")
    /\ UNCHANGED <<ents, log, store, moved>>
    /\ UNCHANGED <<termVars, filterVars, queryVars, elast>>

BulkUpdateOne(b, e, kw) == BulkOne(b, "update_one", "UpdateOne", "$set", e, kw)
BulkIncOne(b, e, kw) == BulkOne(b, "inc_one", "UpdateOne", "$inc", e, kw)
BulkReplaceOne(b, e, kw) == BulkOne(b, "replace_one", "ReplaceOne", "", e, kw)
BulkDeleteOne(b, e) == BulkOne(b, "delete_one", "DeleteOne", "", e, << >>)

\* bulk.delete_many(kw)
BulkDeleteMany(b, kw) ==
    /\ CanCall /\ CanMake
    /\ LET o == Op(nops + 1, "DeleteMany", build_query(kw).query, "", EmptyDict)
       IN  /\ ops' = [ops EXCEPT ![b] = Append(@, o)]
           /\ nops' = nops + 1
           /\ blast' = BCall("delete_many", b, "", FALSE, "")
    /\ UNCHANGED <<ents, log, store, moved>>
    /\ UNCHANGED <<termVars, filterVars, queryVars, elast>>

\* the bookkeeping of a merge: what left an updater's list
MovedBy(res, donor) ==
    IF ~res.raised /\ donor \in Lazies /\ res.ops[donor] = << >>
    THEN moved \cup Ids(ops[donor]) ELSE moved

\* lazy + other
LazyAdd(x, y) ==
    /\ CanCall
    /\ LET res == lazy_add(ops, x, y)
       IN  /\ ops' = res.ops
           /\ moved' = MovedBy(res, x)
           /\ blast' = IF res.raised THEN BRaise("add", x, y, "TypeError")
                       ELSE BCall("add", x, y, FALSE, res.ret)
    /\ UNCHANGED <<ents, log, store, nops>>
    /\ UNCHANGED <<termVars, filterVars, queryVars, elast>>

\* bulk + other, bulk += other
BulkAdd(x, y) ==
    /\ CanCall
    /\ LET res == bulk_add(ops, x, y)
       IN  /\ ops' = res.ops
           /\ moved' = MovedBy(res, y)
           /\ blast' = IF res.raised THEN BRaise("add", x, y, "TypeError")
                       ELSE BCall("add", x, y, FALSE, res.ret)
    /\ UNCHANGED <<ents, log, store, nops>>
    /\ UNCHANGED <<termVars, filterVars, queryVars, elast>>

\* bulk.take(other)
BulkTake(x, y) ==
    /\ CanCall
    /\ LET res == bulk_take(ops, x, y)
       IN  /\ ops' = res.ops
           /\ moved' = MovedBy(res, y)
           /\ blast' = BCall("take", x, y, res.raised, res.ret)
    /\ UNCHANGED <<ents, log, store, nops>>
    /\ UNCHANGED <<termVars, filterVars, queryVars, elast>>

\* a save that calls bulk_write with an empty list as well
save_always(os) == <<os>>

\* what save() hands to coll.bulk_write: nothing for an empty list
save_writes(os) == IF os # << >> THEN <<os>> ELSE << >>

\* DongoLazyUpdater.save() / DongoBulk.save(); coll.bulk_write is taken to
\* return: an exception of the driver is passed through by save, which then
\* never reaches self.ops = []
Save(x) ==
    /\ CanCall
    /\ log' = log \o [i \in 1..Len(save_writes(ops[x])) |->
                        [by |-> x, ops |-> save_writes(ops[x])[i]]]
    /\ store' = bulk_write(store, ops[x])
    /\ ops' = [ops EXCEPT ![x] = << >>]
    /\ blast' = BCall("save", x, "", FALSE,
                      IF save_writes(ops[x]) # << >> THEN "result" ELSE "")
    /\ UNCHANGED <<ents, nops, moved>>
    /\ UNCHANGED <<termVars, filterVars, queryVars, elast>>

\* the arguments the builders are called with
SetVals == {IntV(1)}
SetKws == { <<Kw(S_x, IntV(2))>> }
OneKws == { <<Kw(S_x, IntV(1))>> }
ManyKws == { <<Kw(T_a_gt, IntV(1))>> }
OneTargets == {"E1", "E3"}

NextBulk ==
    \/ \E l \in Lazies, v \in SetVals : LazySetItem(l, S_x, v)
    \/ \E l \in Lazies, kw \in SetKws : LazySet(l, kw)
    \/ \E b \in Bulks, e \in OneTargets, kw \in OneKws : BulkUpdateOne(b, e, kw)
    \/ \E b \in Bulks, e \in OneTargets, kw \in OneKws : BulkIncOne(b, e, kw)
    \/ \E b \in Bulks, e \in OneTargets, kw \in OneKws : BulkReplaceOne(b, e, kw)
    \/ \E b \in Bulks, e \in OneTargets : BulkDeleteOne(b, e)
    \/ \E b \in Bulks, kw \in ManyKws : BulkDeleteMany(b, kw)
    \/ \E x \in Lazies, y \in Objects : LazyAdd(x, y)
    \/ \E x \in Bulks, y \in Objects : BulkAdd(x, y)
    \/ \E x \in Bulks, y \in Objects : BulkTake(x, y)
    \/ \E x \in Objects : Save(x)

SpecBulk == InitBulk /\ [][NextBulk]_vars

\* the last call merged updater d into batch r
MergedInto(r, d) ==
    /\ r \in Bulks /\ d \in Lazies
    /\ \/ blast.op \in {"add", "take"} /\ blast.x = r /\ blast.y = d
       \/ blast.op = "add" /\ blast.x = d /\ blast.y = r

(***************************************************************************)
(* C7: merging a single-entity updater into a batch (bulk.take(lazy),      *)
(* bulk + lazy, bulk += lazy) appends all of the updater's pending         *)
(* operations, in their original order, after the batch's existing ones    *)
(* and leaves the updater's pending list empty; a save() on the donor      *)
(* immediately afterwards issues no bulk_write, and operations added to    *)
(* the donor after the merge are the only ones its next save() writes.     *)
(***************************************************************************)
C7_Transferred ==
    \A r \in Bulks, d \in Lazies :
        MergedInto(r, d) =>
            /\ ~blast.raised
            /\ ops[r] = blast.pre[r] \o blast.pre[d]
            /\ ops[d] = << >>
            /\ \A o \in Objects \ {r, d} : ops[o] = blast.pre[o]
            /\ log = blast.prelog

C7_DonorWritesOnlyNew ==
    \A i \in DOMAIN log : log[i].by \in Lazies => Ids(log[i].ops) \cap moved = {}

C7_DonorSaveIsNoop ==
    \A r \in Bulks, d \in Lazies :
        (MergedInto(r, d) /\ blast'.op = "save" /\ blast'.x = d) => log' = log

C7_MergeLazyIntoBulk ==
    /\ [](C7_Transferred /\ C7_DonorWritesOnlyNew)
    /\ [][C7_DonorSaveIsNoop]_vars

\* an updater gave an operation to a batch, got a new one and wrote it alone
C7_Witness ==
    /\ blast.op = "save" /\ blast.x \in Lazies
    /\ Len(log) = Len(blast.prelog) + 1
    /\ Len(log[Len(log)].ops) = 1
    /\ \E b \in Bulks : \E i \in DOMAIN ops[b] :
          /\ ops[b][i].id \in moved
          /\ ops[b][i].filter = log[Len(log)].ops[1].filter

\* the result of a merge expression: the list of the object it evaluates to
Outcome(res) ==
    IF res.raised THEN [raised |-> TRUE, list |-> << >>, ops |-> res.ops, ret |-> ""]
    ELSE [raised |-> FALSE, list |-> res.ops[res.ret], ops |-> res.ops, ret |-> res.ret]

\* (x + y) + z and x + (y + z) from the pending lists o
LeftFirst(o, x, y, z) ==
    LET a == Plus(o, x, y)
    IN  IF a.raised THEN Outcome(a) ELSE Outcome(Plus(a.ops, a.ret, z))

RightFirst(o, x, y, z) ==
    LET a == Plus(o, y, z)
    IN  IF a.raised THEN Outcome(a) ELSE Outcome(Plus(a.ops, x, a.ret))

(***************************************************************************)
(* C8: merging is associative over any combination of updaters and         *)
(* batches: for all x, y, z, (x + y) + z and x + (y + z) from the same     *)
(* starting state yield a result holding the same ordered sequence of      *)
(* operations, and in both cases every donor's pending list is empty.      *)
(***************************************************************************)
C8_Associative ==
    \A x, y, z \in Objects :
        (x # y /\ y # z /\ x # z) =>
            LET l == LeftFirst(ops, x, y, z)
                r == RightFirst(ops, x, y, z)
            IN  /\ ~l.raised /\ ~r.raised
                /\ l.list = r.list
                /\ \A d \in {x, y, z} \ {l.ret} : l.ops[d] = << >>
                /\ \A d \in {x, y, z} \ {r.ret} : r.ops[d] = << >>

\* the same, for the groupings in which no two updaters are added
C8_AssociativeWhereDefined ==
    \A x, y, z \in Objects :
        (x # y /\ y # z /\ x # z) =>
            LET l == LeftFirst(ops, x, y, z)
                r == RightFirst(ops, x, y, z)
            IN  (~l.raised /\ ~r.raised) => l.list = r.list

C10_LazyPlusLazy ==
    (blast.op = "add" /\ blast.x \in Lazies /\ blast.y \in Lazies
        /\ blast.x # blast.y) =>
        /\ ~blast.raised
        /\ blast.ret \in Bulks
        /\ ops[blast.ret] = blast.pre[blast.x] \o blast.pre[blast.y]
        /\ ops[blast.x] = << >>
        /\ ops[blast.y] = << >>

\* how many times the operation object id stands in the list os
Count(os, id) == Cardinality({ i \in DOMAIN os : os[i].id = id })

\* the object that holds the operations after the merge of the last call
Recipient == IF blast.op = "take" THEN blast.x ELSE blast.ret

\* every operation pending in the two objects before the last call is pending
\* in the recipient as many times as it was
Conserved ==
    \A id \in Ids(blast.pre[blast.x]) \cup Ids(blast.pre[blast.y]) :
        Count(ops[Recipient], id) =
            Count(blast.pre[blast.x], id)
              + (IF blast.y = blast.x THEN 0 ELSE Count(blast.pre[blast.y], id))

(***************************************************************************)
(* C27: merging conserves operations: for every merge (x + y, x += y,      *)
(* x.take(y)) of updaters and batches, every operation pending in x or y   *)
(* before the merge is pending in the recipient afterwards, exactly as     *)
(* many times as before, also when x and y are the same object.            *)
(***************************************************************************)
C27_MergeConserves ==
    (blast.op \in {"add", "take"} /\ ~blast.raised) => Conserved

\* the same, for merges of two different objects
C27_MergeOfTwoConserves ==
    (blast.op \in {"add", "take"} /\ ~blast.raised /\ blast.x # blast.y) => Conserved

(***************************************************************************)
(* C11: save() on an updater or batch with a non-empty pending list issues *)
(* exactly one bulk_write carrying all pending operations in the order     *)
(* they were accumulated, and afterwards the pending list is empty; save() *)
(* with an empty pending list issues no driver call and returns nothing,   *)
(* so a second save() directly after a first is a no-op.                   *)
(* Checked for runs in which every bulk_write returns.                     *)
(***************************************************************************)
C11_SaveWritesOnce ==
    blast.op = "save" =>
        /\ ~blast.raised
        /\ ops = [blast.pre EXCEPT ![blast.x] = << >>]
        /\ IF blast.pre[blast.x] # << >>
           THEN /\ log = Append(blast.prelog,
                                [by |-> blast.x, ops |-> blast.pre[blast.x]])
                /\ blast.ret = "result"
           ELSE /\ log = blast.prelog
                /\ blast.ret = ""

C11_SecondSaveIsNoop ==
    (blast.op = "save" /\ blast'.op = "save" /\ blast'.x = blast.x) =>
        /\ log' = log
        /\ blast'.ret = ""

S_n == <<"n">>
S_k == <<"k">>
P_n_k == <<"n", ".", "k">>
P_m_k == <<"m", ".", "k">>
T_n_k == <<"n", "_", "_", "k">>

LazyData ==
    (<<S_id>> :> Leaf(IntV(1))) @@ (<<S_x>> :> Leaf(IntV(0)))
        @@ (<<S_n>> :> DictNode) @@ (<<S_n, S_k>> :> Leaf(IntV(0)))

InitLazy ==
    /\ ents = [e \in Entities |-> IF e = "E1" THEN LazyData ELSE InitEnts[e]]
    /\ ops = [o \in Objects |-> << >>]
    /\ log = << >>
    /\ store = <<LazyData>>
    /\ nops = 0
    /\ moved = {}
    /\ blast = NoBulkCall
    /\ elast = NoEntCall
    /\ IdleTerm
    /\ IdleFilter
    /\ IdleQuery

LazyPaths == {S_x, P_n_k, P_m_k}
LazyVals == {IntV(1), IntV(2)}
LazyKws ==
    { <<Kw(S_x, IntV(2))>>, <<Kw(P_n_k, IntV(1))>>, <<Kw(T_n_k, IntV(1))>>,
      <<Kw(S_x, IntV(1)), Kw(P_m_k, IntV(1))>> }

NextLazy ==
    \/ \E p \in LazyPaths, v \in LazyVals : LazySetItem("L1", p, v)
    \/ \E kw \in LazyKws : LazySet("L1", kw)

SpecLazy == InitLazy /\ [][NextLazy]_vars

\* the value the pending list of updater l holds for key, if any: that of the
\* last operation carrying the key
PendingFor(l, key) ==
    LET has == { i \in DOMAIN ops[l] : key \in DOMAIN ops[l][i].doc }
    IN  IF has = {} THEN [any |-> FALSE, v |-> IntV(0)]
        ELSE [any |-> TRUE, v |-> ops[l][Max(has)].doc[key].v]

PendingKeys(l) == UNION { DOMAIN ops[l][i].doc : i \in DOMAIN ops[l] }

(***************************************************************************)
(* C12: for a single-entity updater, after any sequence of lazy[path] = v  *)
(* and lazy.set(fields) calls (whether each call returns or raises),       *)
(* reading a path through the updater or the entity returns the value      *)
(* carried by the most recent pending Update operation for that path, and  *)
(* a value is mirrored into the entity's in-memory data only if an Update  *)
(* operation carrying it was appended to the pending list.                 *)
(***************************************************************************)
C12_ReadsPending ==
    \A key \in PendingKeys("L1") :
        getitem(ents["E1"], key) =
            [raised |-> FALSE, node |-> Leaf(PendingFor("L1", key).v)]

C12_MirroredOnlyIfPending ==
    \A p \in DOMAIN ents["E1"] :
        (p \notin DOMAIN LazyData \/ ents["E1"][p] # LazyData[p]) =>
            \E key \in PendingKeys("L1") :
                /\ SplitDot(key) = p
                /\ \E i \in DOMAIN ops["L1"] :
                      /\ key \in DOMAIN ops["L1"][i].doc
                      /\ Leaf(ops["L1"][i].doc[key].v) = ents["E1"][p]

C12_LocalReadsConsistent == C12_ReadsPending /\ C12_MirroredOnlyIfPending

(***************************************************************************)
(* The per-entity builders on the three kinds of entity: E1 has _id and    *)
(* _uuid, E2 has only _uuid, E3 has neither; one updater for each of them  *)
(* and one batch.                                                          *)
(***************************************************************************)
TargetLazies == {"L1", "L2", "L3"}
TargetObjects == TargetLazies \cup {"B1"}

TargetData ==
    [e \in Entities |->
        CASE e = "E1" -> (<<S_id>> :> Leaf(IntV(1))) @@ (<<S_uuid>> :> Leaf(IntV(2)))
                            @@ (<<S_x>> :> Leaf(IntV(0)))
          [] e = "E2" -> (<<S_uuid>> :> Leaf(IntV(2))) @@ (<<S_x>> :> Leaf(IntV(0)))
          [] OTHER    -> (<<S_x>> :> Leaf(IntV(0)))]

InitTarget ==
    /\ ents = TargetData
    /\ ops = [o \in TargetObjects |-> << >>]
    /\ log = << >>
    /\ store = <<TargetData["E1"]>>
    /\ nops = 0
    /\ moved = {}
    /\ blast = NoBulkCall
    /\ elast = NoEntCall
    /\ IdleTerm
    /\ IdleFilter
    /\ IdleQuery

NextTarget ==
    \/ \E l \in TargetLazies, v \in SetVals : LazySetItem(l, S_x, v)
    \/ \E l \in TargetLazies, kw \in SetKws : LazySet(l, kw)
    \/ \E e \in Entities, kw \in OneKws : BulkUpdateOne("B1", e, kw)
    \/ \E e \in Entities, kw \in OneKws : BulkIncOne("B1", e, kw)
    \/ \E e \in Entities, kw \in OneKws : BulkReplaceOne("B1", e, kw)
    \/ \E e \in Entities : BulkDeleteOne("B1", e)

SpecTarget == InitTarget /\ [][NextTarget]_vars

BuilderCalls ==
    {"setitem", "set", "update_one", "inc_one", "replace_one", "delete_one"}

\* the entity a builder call was made for
TargetOf(call) ==
    IF call.op \in {"setitem", "set"} THEN InstanceOf(call.x) ELSE call.y

\* the selector the claim prescribes for an entity with the data d
Selector(d) ==
    IF <<S_id>> \in DOMAIN d
    THEN (S_id :> Plain(d[<<S_id>>].v))
    ELSE (S_uuid :> Plain(d[<<S_uuid>>].v))

HasIdentity(d) == <<S_id>> \in DOMAIN d \/ <<S_uuid>> \in DOMAIN d

(***************************************************************************)
(* C13: every per-entity deferred operation builder (batch update_one,     *)
(* inc_one, replace_one, delete_one; updater lazy[path] = v and lazy.set)  *)
(* targets the selector {'_id': id} when the entity has a primary          *)
(* identifier, else {'_uuid': uuid} when it has a secondary identifier,    *)
(* and otherwise raises DongoResultError without appending any operation   *)
(* and without changing the entity's in-memory data.                       *)
(***************************************************************************)
C13_BuilderStep ==
    (blast'.n = blast.n + 1 /\ blast'.op \in BuilderCalls) =>
        LET d == ents[TargetOf(blast')]
            o == blast'.x
        IN  IF HasIdentity(d)
            THEN /\ ~blast'.raised
                 /\ Len(ops'[o]) = Len(ops[o]) + 1
                 /\ SubSeq(ops'[o], 1, Len(ops[o])) = ops[o]
                 /\ ops'[o][Len(ops'[o])].filter = Selector(d)
            ELSE /\ blast'.raised
                 /\ blast'.err = "DongoResultError"
                 /\ ops' = ops
                 /\ ents' = ents

C13_Selector == [][C13_BuilderStep]_vars

\* an operation for the entity with both identifiers went to its _id, and the
\* next call, for the entity with neither, was refused
C13_Witness ==
    /\ blast.raised /\ blast.err = "DongoResultError"
    /\ TargetOf(blast) = "E3"
    /\ \E o \in TargetObjects : \E i \in DOMAIN ops[o] :
          ops[o][i].filter = (S_id :> Plain(IntV(1)))

(***************************************************************************)
(* A batch, the store and one inserted entity: the builders, save() and    *)
(* refresh_from_db().  The collection holds {_id: 2, x: 0} and the         *)
(* entity's document {_id: 1, x: 1}.                                       *)
(***************************************************************************)
StoreX0 == 1

StoreData == (<<S_id>> :> Leaf(IntV(1))) @@ (<<S_x>> :> Leaf(IntV(StoreX0)))
OtherData == (<<S_id>> :> Leaf(IntV(2))) @@ (<<S_x>> :> Leaf(IntV(0)))

T_x_gt == S_x \o DUNDER \o <<"g","t">>
StoreManyKws == { <<Kw(T_x_gt, IntV(1))>> }

InitStore ==
    /\ ents = [e \in Entities |-> IF e = "E1" THEN StoreData ELSE InitEnts[e]]
    /\ ops = [o \in Objects |-> << >>]
    /\ log = << >>
    /\ store = <<OtherData, StoreData>>
    /\ nops = 0
    /\ moved = {}
    /\ blast = NoBulkCall
    /\ elast = NoEntCall
    /\ IdleTerm
    /\ IdleFilter
    /\ IdleQuery

\* DongoCollection.refresh_from_db(): self._data = coll.find_one({'_id': ...})
Refresh(e) ==
    /\ CanCall
    /\ IF ents[e] = NoneData
       THEN /\ blast' = BRaise("refresh", "", e, "TypeError")
            /\ UNCHANGED ents
       ELSE IF <<S_id>> \notin DOMAIN ents[e]
       THEN /\ blast' = BRaise("refresh", "", e, "KeyError")
            /\ UNCHANGED ents
       ELSE /\ ents' = [ents EXCEPT
                          ![e] = find_one(store, (S_id :> Plain(@[<<S_id>>].v)))]
            /\ blast' = BCall("refresh", "", e, FALSE, "")
    /\ UNCHANGED <<ops, log, store, nops, moved>>
    /\ UNCHANGED <<termVars, filterVars, queryVars, elast>>

NextStore ==
    \/ \E kw \in OneKws : BulkUpdateOne("B1", "E1", kw)
    \/ \E kw \in OneKws : BulkIncOne("B1", "E1", kw)
    \/ \E kw \in OneKws : BulkReplaceOne("B1", "E1", kw)
    \/ BulkDeleteOne("B1", "E1")
    \/ \E kw \in StoreManyKws : BulkDeleteMany("B1", kw)
    \/ Save("B1")
    \/ Refresh("E1")

SpecStore == InitStore /\ [][NextStore]_vars

\* the operations written so far, in the order the store applied them
RECURSIVE Written(_)
Written(l) == IF l = << >> THEN << >> ELSE Head(l).ops \o Written(Tail(l))

OnlyIncs(os) ==
    \A i \in DOMAIN os :
        /\ os[i].kind = "UpdateOne" /\ os[i].mod = "$inc"
        /\ os[i].filter = (S_id :> Plain(IntV(1)))
        /\ DOMAIN os[i].doc = {S_x}

RECURSIVE IncSum(_)
IncSum(os) == IF os = << >> THEN 0 ELSE Head(os).doc[S_x].v.n + IncSum(Tail(os))

BatchCalls ==
    {"update_one", "inc_one", "replace_one", "delete_one", "delete_many", "save"}

(***************************************************************************)
(* C14: inc_one(entity, f=d) on a batch (and likewise update_one,          *)
(* replace_one, delete_one and the batch's save()) leaves the entity's     *)
(* in-memory data unchanged; only after save() followed by a refresh of    *)
(* the entity from the store does the entity's in-memory f equal the       *)
(* previously stored value plus d.                                         *)
(***************************************************************************)
C14_NoMirrorStep ==
    (blast'.n = blast.n + 1 /\ blast'.op \in BatchCalls) => ents' = ents

C14_RefreshedIncrement ==
    (blast.op = "refresh" /\ ~blast.raised /\ OnlyIncs(Written(log))) =>
        /\ ents["E1"] # NoneData
        /\ getitem(ents["E1"], S_x) =
              [raised |-> FALSE,
               node |-> Leaf(IntV(StoreX0 + IncSum(Written(log))))]

C14_BatchDoesNotMirror ==
    /\ []C14_RefreshedIncrement
    /\ [][C14_NoMirrorStep]_vars

\* two increments were built, saved and read back by a refresh
C14_Witness ==
    /\ blast.op = "refresh" /\ ~blast.raised
    /\ Len(Written(log)) = 2 /\ OnlyIncs(Written(log))
    /\ ents["E1"][<<S_x>>] = Leaf(IntV(StoreX0 + 2))

(***************************************************************************)
(* Path addressing on the data of one entity: _set_nested, __getitem__,    *)
(* __contains__ and get, on dicts nested up to MaxDepth deep, with paths   *)
(* of up to MaxDepth segments.                                             *)
(***************************************************************************)
MaxDepth == 3

K_a == <<"a">>
K_b == <<"b">>

EmptyData == [p \in {} |-> DictNode]

\* the dicts that can sit at path pre with d more levels below: key b is
\* absent or an integer, key a is absent, an integer or a dict
RECURSIVE DictsAt(_, _)
DictsAt(pre, d) ==
    IF d = 0 THEN { EmptyData }
    ELSE LET pa == Append(pre, K_a)
             pb == Append(pre, K_b)
             as == { EmptyData, (pa :> Leaf(IntV(0))) }
                      \cup { (pa :> DictNode) @@ t : t \in DictsAt(pa, d - 1) }
             bs == { EmptyData, (pb :> Leaf(IntV(0))) }
         IN  { x @@ y : x \in as, y \in bs }

RECURSIVE KeySeqs(_)
KeySeqs(n) ==
    IF n = 0 THEN { << >> }
    ELSE LET R == KeySeqs(n - 1)
         IN  R \cup { Append(r, k) : r \in { x \in R : Len(x) = n - 1 },
                                    k \in {K_a, K_b} }

\* '.'.join(keys)
RECURSIVE Join(_)
Join(keys) ==
    IF Len(keys) = 1 THEN keys[1]
    ELSE keys[1] \o <<".">> \o Join(Tail(keys))

TestPaths == { Join(ks) : ks \in KeySeqs(MaxDepth) \ { << >> } }

PathCall(op, path, v, res) ==
    [op |-> op, path |-> path, v |-> v, raised |-> res.raised, ret |-> res.ret,
     pre |-> ents["E1"]]

InitPath ==
    /\ ents \in { [e \in {"E1"} |-> d] : d \in DictsAt(<< >>, MaxDepth) }
    /\ ops = << >> /\ log = << >> /\ store = << >>
    /\ nops = 0 /\ moved = {} /\ blast = NoBulkCall
    /\ elast = NoEntCall
    /\ IdleTerm
    /\ IdleFilter
    /\ IdleQuery

\* entity._set_nested(path, v)
SetNested(path, v) ==
    /\ LET r == set_nested(ents["E1"], path, v)
       IN  /\ ents' = [ents EXCEPT !["E1"] = r.data]
           /\ elast' = PathCall("set_nested", path, v,
                                [raised |-> r.raised, ret |-> Leaf(IntV(0))])
    /\ UNCHANGED <<ops, log, store, nops, moved, blast>>
    /\ UNCHANGED <<termVars, filterVars, queryVars>>

\* entity[path]
GetItem(path) ==
    /\ LET r == getitem(ents["E1"], path)
       IN  elast' = PathCall("getitem", path, IntV(0),
                             [raised |-> r.raised, ret |-> r.node])
    /\ UNCHANGED <<ents, ops, log, store, nops, moved, blast>>
    /\ UNCHANGED <<termVars, filterVars, queryVars>>

\* path in entity
Contains(path) ==
    /\ elast' = PathCall("contains", path, IntV(0),
                         [raised |-> FALSE, ret |-> contains(ents["E1"], path)])
    /\ UNCHANGED <<ents, ops, log, store, nops, moved, blast>>
    /\ UNCHANGED <<termVars, filterVars, queryVars>>

\* entity.get(path, default)
Get(path, default) ==
    /\ LET r == get(ents["E1"], path, default)
       IN  elast' = PathCall("get", path, default,
                             [raised |-> r.raised, ret |-> r.node])
    /\ UNCHANGED <<ents, ops, log, store, nops, moved, blast>>
    /\ UNCHANGED <<termVars, filterVars, queryVars>>

PathVals == {IntV(1)}
Defaults == {IntV(2)}

NextPath ==
    \/ \E p \in TestPaths, v \in PathVals : SetNested(p, v)
    \/ \E p \in TestPaths : GetItem(p)
    \/ \E p \in TestPaths : Contains(p)
    \/ \E p \in TestPaths, d \in Defaults : Get(p, d)

SpecPath == InitPath /\ [][NextPath]_vars

\* every segment of the path resolves through nested dicts of data
Resolves(data, path) ==
    LET keys == SplitDot(path)
    IN  \A i \in 1..Len(keys) :
            /\ SubSeq(keys, 1, i) \in DOMAIN data
            /\ i < Len(keys) => data[SubSeq(keys, 1, i)].dict

(***************************************************************************)
(* C15: for every dotted path present in an entity and every value v,      *)
(* setting the path to v and then getting the same path returns v, and no  *)
(* other path's value in the entity changes.  The paths below the one set  *)
(* belong to the value that was replaced and are not other paths.          *)
(***************************************************************************)
C15_SetGetRoundTrip ==
    (elast.op = "set_nested" /\ Resolves(elast.pre, elast.path)) =>
        LET keys == SplitDot(elast.path)
            now == ents["E1"]
        IN  /\ ~elast.raised
            /\ getitem(now, elast.path) = [raised |-> FALSE, node |-> Leaf(elast.v)]
            /\ \A q \in DOMAIN elast.pre :
                  ~IsPrefix(keys, q) => q \in DOMAIN now /\ now[q] = elast.pre[q]
            /\ \A q \in DOMAIN now : q \in DOMAIN elast.pre

\* a path of three segments, whose last dict has another key, was set
C15_Witness ==
    /\ elast.op = "set_nested" /\ ~elast.raised
    /\ elast.path = Join(<<K_a, K_a, K_b>>)
    /\ <<K_a, K_a, K_a>> \in DOMAIN elast.pre
    /\ <<K_a, K_a, K_b>> \in DOMAIN elast.pre
    /\ elast.pre[<<K_a, K_a, K_b>>] = Leaf(IntV(0))
    /\ ents["E1"][<<K_a, K_a, K_b>>] = Leaf(IntV(1))

\* a segment before the last of the path is absent from data or holds no dict
BrokenPath(data, path) ==
    LET keys == SplitDot(path)
    IN  \E i \in 1..(Len(keys) - 1) :
            \/ SubSeq(keys, 1, i) \notin DOMAIN data
            \/ ~data[SubSeq(keys, 1, i)].dict

(***************************************************************************)
(* C25: a set on a path whose intermediate segment is absent, or is not a  *)
(* mapping, fails with an error and leaves the entity's in-memory data     *)
(* unchanged: no missing intermediate node is created.  A set that         *)
(* succeeds adds no path but the one it was given.                         *)
(***************************************************************************)
C25_NoIntermediateCreated ==
    elast.op = "set_nested" =>
        /\ BrokenPath(elast.pre, elast.path) =>
              (elast.raised /\ ents["E1"] = elast.pre)
        /\ \A q \in DOMAIN ents["E1"] :
              q \notin DOMAIN elast.pre => q = SplitDot(elast.path)

\* a set below a.b was refused in an entity where a is a dict without b
C25_Witness ==
    /\ elast.op = "set_nested" /\ elast.raised
    /\ elast.path = Join(<<K_a, K_b, K_a>>)
    /\ <<K_a>> \in DOMAIN elast.pre
    /\ <<K_a, K_a>> \in DOMAIN elast.pre
    /\ <<K_a, K_b>> \notin DOMAIN elast.pre
    /\ ents["E1"] = elast.pre

(***************************************************************************)
(* C16: the containment check (path in entity) never raises: it returns    *)
(* true iff every segment of the path resolves through nested mappings,    *)
(* and false when a segment is absent or an intermediate value is not a    *)
(* mapping; entity.get(path, default) returns the stored value when        *)
(* contained and default otherwise, never raising.                         *)
(***************************************************************************)
C16_ContainsNeverRaises ==
    /\ elast.op = "contains" =>
          /\ ~elast.raised
          /\ elast.ret = Resolves(elast.pre, elast.path)
    /\ elast.op = "get" =>
          /\ ~elast.raised
          /\ elast.ret = IF Resolves(elast.pre, elast.path)
                         THEN elast.pre[SplitDot(elast.path)]
                         ELSE Leaf(elast.v)

\* get fell back to the default on a path that goes through an integer
C16_Witness ==
    /\ elast.op = "get"
    /\ elast.path = Join(<<K_a, K_b, K_a>>)
    /\ <<K_a, K_b>> \in DOMAIN elast.pre
    /\ elast.pre[<<K_a, K_b>>] = Leaf(IntV(0))
    /\ elast.ret = Leaf(IntV(2))

(***************************************************************************)
(* Immediate writes of an entity: entity[path] = v, entity.set(fields) and *)
(* entity.inc(field, amt), each of them one coll.update and a change of    *)
(* the in-memory data.  E1 was inserted and read back, E3 never inserted.  *)
(***************************************************************************)
MaxEntCalls == 3

P_x_k == <<"x", ".", "k">>

\* an update that never reaches the collection
coll_update_lost(st, flt, mod, fields) == [raised |-> FALSE, store |-> st]

\* coll.update(flt, {mod: fields}): the first matching document is updated;
\* the store refuses (WriteError) an update through a value that is no dict
coll_update(st, flt, mod, fields) ==
    LET hit == MatchIdx(st, flt)
        r == mongo_update(st[Min(hit)], mod, fields)
    IN  IF hit = {} THEN [raised |-> FALSE, store |-> st]
        ELSE IF r.raised THEN [raised |-> TRUE, store |-> st]
        ELSE [raised |-> FALSE, store |-> [st EXCEPT ![Min(hit)] = r.data]]

\* the record of a call of coll.update
UpdateCall(e, flt, mod, fields) ==
    [by |-> e, call |-> "update", filter |-> flt, mod |-> mod, doc |-> fields]

ECall(op, e, path, v, err) ==
    [n |-> elast.n + 1,
     op |-> op, e |-> e, path |-> path, v |-> v,
     raised |-> err # "", err |-> err,
     pre |-> ents, prestore |-> store, prelog |-> log]

CanEntCall == elast.n < MaxEntCalls

InitEntity ==
    /\ ents = [e \in {"E1", "E3"} |-> IF e = "E1" THEN LazyData ELSE InitEnts[e]]
    /\ store = <<OtherData, LazyData>>
    /\ log = << >>
    /\ ops = << >> /\ nops = 0 /\ moved = {} /\ blast = NoBulkCall
    /\ elast = NoEntCall
    /\ IdleTerm
    /\ IdleFilter
    /\ IdleQuery

\* DongoCollection._update(req): self['_id'], then coll.update
update(e, mod, fields) ==
    IF <<S_id>> \notin DOMAIN ents[e]
    THEN [err |-> "KeyError", store |-> store, log |-> log]
    ELSE LET flt == (S_id :> Plain(ents[e][<<S_id>>].v))
             r == coll_update(store, flt, mod, fields)
         IN  [err |-> IF r.raised THEN "WriteError" ELSE "",
              store |-> r.store,
              log |-> Append(log, UpdateCall(e, flt, mod, fields))]

\* entity[path] = v: _update({'$set': {path: v}}), then _set_nested(path, v)
SetItem(e, path, v) ==
    /\ CanEntCall
    /\ LET u == update(e, "$set", (path :> Plain(v)))
           sn == set_nested(ents[e], path, v)
       IN  /\ store' = u.store
           /\ log' = u.log
           /\ IF u.err # ""
              THEN /\ elast' = ECall("setitem", e, path, v, u.err)
                   /\ UNCHANGED ents
              ELSE /\ elast' = ECall("setitem", e, path, v, sn.err)
                   /\ ents' = [ents EXCEPT ![e] = sn.data]
    /\ UNCHANGED <<ops, nops, moved, blast>>
    /\ UNCHANGED <<termVars, filterVars, queryVars>>

\* entity.set(kw): _set_nested for each field, then _update({'$set': dct})
Set(e, kw) ==
    /\ CanEntCall
    /\ LET dct == translate_dunder_dict(kw)
           sl == SetLoop([raised |-> FALSE, err |-> "", data |-> ents[e]],
                         DictOrder(kw))
           u == update(e, "$set", dct)
       IN  /\ ents' = [ents EXCEPT ![e] = sl.data]
           /\ IF sl.raised
              THEN /\ elast' = ECall("set", e, << >>, IntV(0), sl.err)
                   /\ UNCHANGED <<store, log>>
              ELSE /\ elast' = ECall("set", e, << >>, IntV(0), u.err)
                   /\ store' = u.store
                   /\ log' = u.log
    /\ UNCHANGED <<ops, nops, moved, blast>>
    /\ UNCHANGED <<termVars, filterVars, queryVars>>

\* entity.inc(field, amt): _update({'$inc': {field: amt}}), self[field], then
\* _set_nested(field, val + amt)
Inc(e, field, amt) ==
    /\ CanEntCall
    /\ LET u == update(e, "$inc", (field :> Plain(amt)))
           g == getitem(ents[e], field)
           sn == set_nested(ents[e], field, IntV(g.node.v.n + amt.n))
       IN  /\ store' = u.store
           /\ log' = u.log
           /\ IF u.err # ""
              THEN /\ elast' = ECall("inc", e, field, amt, u.err)
                   /\ UNCHANGED ents
              ELSE IF g.raised \/ g.node.dict
              THEN /\ elast' = ECall("inc", e, field, amt,
                                     IF g.raised THEN "KeyError" ELSE "TypeError")
                   /\ UNCHANGED ents
              ELSE /\ elast' = ECall("inc", e, field, amt, sn.err)
                   /\ ents' = [ents EXCEPT ![e] = sn.data]
    /\ UNCHANGED <<ops, nops, moved, blast>>
    /\ UNCHANGED <<termVars, filterVars, queryVars>>

EntPaths == {S_x, P_n_k, P_m_k, P_x_k}
EntVals == {IntV(1), IntV(2)}
EntKws == { <<Kw(S_x, IntV(2))>>, <<Kw(S_x, IntV(1)), Kw(P_m_k, IntV(1))>> }
IncFields == {S_x, P_n_k, P_m_k}

NextEntity ==
    \/ \E e \in {"E1", "E3"}, p \in EntPaths, v \in EntVals : SetItem(e, p, v)
    \/ \E e \in {"E1", "E3"}, kw \in EntKws : Set(e, kw)
    \/ \E e \in {"E1", "E3"}, f \in IncFields : Inc(e, f, IntV(1))

SpecEntity == InitEntity /\ [][NextEntity]_vars

\* the stored document of an entity with the data d, None when there is none
StoredDoc(st, d) ==
    IF <<S_id>> \in DOMAIN d
    THEN find_one(st, (S_id :> Plain(d[<<S_id>>].v)))
    ELSE NoneData

(***************************************************************************)
(* C17: a path-addressed set (entity[path] = v) on a persisted entity      *)
(* whose in-memory data matches the store is an immediate single-field     *)
(* write: when it returns, both the stored document and the entity's       *)
(* in-memory data hold v at path, and exactly one driver update carrying   *)
(* only {path: v} was issued.                                              *)
(***************************************************************************)
C17_SetItemWritesThrough ==
    (/\ elast.op = "setitem" /\ ~elast.raised
     /\ StoredDoc(elast.prestore, elast.pre[elast.e]) = elast.pre[elast.e]) =>
        LET now == ents[elast.e]
            want == [raised |-> FALSE, node |-> Leaf(elast.v)]
        IN  /\ getitem(now, elast.path) = want
            /\ getitem(StoredDoc(store, now), elast.path) = want
            /\ log = Append(elast.prelog,
                            UpdateCall(elast.e, Selector(elast.pre[elast.e]),
                                       "$set", (elast.path :> Plain(elast.v))))

\* a nested field of the inserted entity was set after an earlier set
C17_Witness ==
    /\ elast.op = "setitem" /\ ~elast.raised /\ elast.e = "E1"
    /\ elast.path = P_n_k
    /\ elast.prelog # << >>
    /\ StoredDoc(elast.prestore, elast.pre["E1"]) = elast.pre["E1"]
    /\ ents["E1"][<<S_n, S_k>>] = Leaf(elast.v)

\* the last call was an immediate mutation of an entity
Mutation == elast.op \in {"setitem", "set", "inc"}

\* the last call left the in-memory data and the store as they were
NothingChanged == ents = elast.pre /\ store = elast.prestore

\* the entity of the last call and its stored document agree
InStep == StoredDoc(store, ents[elast.e]) = ents[elast.e]

(***************************************************************************)
(* C28: every immediate entity mutation (entity[path] = v,                 *)
(* entity.set(fields), entity.inc(field, amt)) is all-or-nothing for the   *)
(* pair of in-memory data and stored document: if the call raises, because *)
(* an intermediate path segment or the incremented field is absent locally *)
(* or because the entity was never persisted, neither of the two has been  *)
(* changed; if it returns, both have been changed to the same value.       *)
(***************************************************************************)
C28_AllOrNothing ==
    Mutation =>
        /\ elast.raised => NothingChanged
        /\ (/\ ~elast.raised
            /\ StoredDoc(elast.prestore, elast.pre[elast.e]) = elast.pre[elast.e])
           => InStep

\* the half of the calls that return, which started with data and document
\* in agreement
C28_ReturnedInStep ==
    (/\ Mutation /\ ~elast.raised
     /\ StoredDoc(elast.prestore, elast.pre[elast.e]) = elast.pre[elast.e])
    => InStep

\* the half of the calls on an entity that was never persisted
C28_UnpersistedUnchanged ==
    (Mutation /\ elast.raised /\ elast.op # "set"
        /\ <<S_id>> \notin DOMAIN elast.pre[elast.e])
    => NothingChanged

(***************************************************************************)
(* Single-document lookups against a collection of up to MaxDocs           *)
(* documents {_id: i, a: n}: QuerySet.first, QuerySet.first_or_die and     *)
(* DongoCollection.get_one.                                                *)
(***************************************************************************)
MaxDocs == 2

LookupDoc(i, n) == (<<S_id>> :> Leaf(IntV(i))) @@ (<<F_a>> :> Leaf(IntV(n)))

RECURSIVE Stores(_)
Stores(n) ==
    IF n = 0 THEN { << >> }
    ELSE LET R == Stores(n - 1)
         IN  R \cup { Append(r, LookupDoc(n, v)) :
                        r \in { x \in R : Len(x) = n - 1 }, v \in 0..MaxVal }

LookupKws ==
    { << >>, <<Kw(F_a, IntV(0))>>, <<Kw(T_a_gt, IntV(0))>>,
      <<Kw(F_a, IntV(1)), Kw(T_a_lte, IntV(MaxVal))>> }

\* coll.find(query): the matching documents in natural order
find(st, flt) == RemoveAt(st, DOMAIN st \ MatchIdx(st, flt))

Returned(ret) == [raised |-> FALSE, err |-> "", ret |-> ret]
Raised(err) == [raised |-> TRUE, err |-> err, ret |-> NoneData]

\* QuerySet.first(): None when find_one gives nothing, else klass(data)
first(st, flt) == Returned(find_one(st, flt))

\* a first_or_die that hands back the None of first()
first_or_die_none(st, flt) == first(st, flt)

\* QuerySet.first_or_die()
first_or_die(st, flt) ==
    LET data == first(st, flt)
    IN  IF data.ret = NoneData THEN Raised("DongoResultError") ELSE data

\* DongoCollection.get_one(query): results[0] of an empty list is an
\* IndexError
get_one(st, flt) ==
    LET results == find(st, flt)
    IN  IF Len(results) > 1 THEN Raised("DongoResultError")
        ELSE IF results = << >> THEN Raised("IndexError")
        ELSE Returned(results[1])

LCall(op, kw, res) ==
    [op |-> op, n |-> 0, kw |-> kw, query |-> build_query(kw).query,
     raised |-> res.raised, err |-> res.err, ret |-> res.ret]

InitLookup ==
    /\ store \in Stores(MaxDocs)
    /\ ents = << >> /\ ops = << >> /\ log = << >>
    /\ nops = 0 /\ moved = {} /\ blast = NoBulkCall
    /\ elast = NoEntCall
    /\ IdleTerm
    /\ IdleFilter
    /\ IdleQuery

\* klass.filter(kw).first()
First(kw) ==
    /\ elast' = LCall("first", kw, first(store, build_query(kw).query))
    /\ UNCHANGED <<ents, ops, log, store, nops, moved, blast>>
    /\ UNCHANGED <<termVars, filterVars, queryVars>>

\* klass.filter(kw).first_or_die()
FirstOrDie(kw) ==
    /\ elast' = LCall("first_or_die", kw, first_or_die(store, build_query(kw).query))
    /\ UNCHANGED <<ents, ops, log, store, nops, moved, blast>>
    /\ UNCHANGED <<termVars, filterVars, queryVars>>

\* klass.get_one(kw)
GetOne(kw) ==
    /\ elast' = LCall("get_one", kw, get_one(store, build_query(kw).query))
    /\ UNCHANGED <<ents, ops, log, store, nops, moved, blast>>
    /\ UNCHANGED <<termVars, filterVars, queryVars>>

NextLookup ==
    \/ \E kw \in LookupKws : First(kw)
    \/ \E kw \in LookupKws : FirstOrDie(kw)
    \/ \E kw \in LookupKws : GetOne(kw)

SpecLookup == InitLookup /\ [][NextLookup]_vars

\* the documents of the collection that match the query of the last call
Matching == { i \in DOMAIN store : StoreMatches(store[i], elast.query) }

(***************************************************************************)
(* C18: first() returns None when no document matches the query and an     *)
(* entity wrapping the matched document otherwise; first_or_die() returns  *)
(* the same entity when one matches and raises DongoResultError when none  *)
(* matches.                                                                *)
(***************************************************************************)
C18_FirstOrNone ==
    /\ elast.op = "first" =>
          /\ ~elast.raised
          /\ IF Matching = {} THEN elast.ret = NoneData
             ELSE elast.ret = store[Min(Matching)]
    /\ elast.op = "first_or_die" =>
          IF Matching = {}
          THEN elast.raised /\ elast.err = "DongoResultError"
          ELSE ~elast.raised /\ elast.ret = store[Min(Matching)]

\* first_or_die() found the second of two documents
C18_Witness ==
    /\ elast.op = "first_or_die" /\ ~elast.raised
    /\ Len(store) = 2
    /\ Matching = {2}
    /\ elast.ret = store[2]

(***************************************************************************)
(* C19: get_one(query) returns the matching entity when exactly one        *)
(* document matches, and raises DongoResultError both when more than one   *)
(* document matches and when zero documents match.                         *)
(***************************************************************************)
C19_GetOneExactlyOne ==
    elast.op = "get_one" =>
        IF Cardinality(Matching) = 1
        THEN ~elast.raised /\ elast.ret = store[Min(Matching)]
        ELSE elast.raised /\ elast.err = "DongoResultError"

\* the same, for the calls that match at least one document
C19_GetOneWhenSomeMatch ==
    (elast.op = "get_one" /\ Matching # {}) =>
        IF Cardinality(Matching) = 1
        THEN ~elast.raised /\ elast.ret = store[Min(Matching)]
        ELSE elast.raised /\ elast.err = "DongoResultError"

(***************************************************************************)
(* Persisting entities: insert() and bulk_create() on entities that were   *)
(* not inserted before, E2 with a pre-assigned _uuid and E3 without one,   *)
(* into a collection that holds one document.  The class attribute         *)
(* use_uuid and the use_uuid argument (None, True or False) are inputs.    *)
(***************************************************************************)
UuidArgs == {"None", "True", "False"}

\* DongoCollection._uuid_from_id(_id): the digest of the id, a value that is
\* no pre-assigned _uuid and differs from id to id
uuid_from_id(id) == IntV(100 + id.n)

\* the _id the store gives the next inserted document, an id no document has
NewId(st) == IntV(10 + Len(st))

\* use_uuid is not False, after the class attribute replaced None
UuidEnabled(cls_uuid, arg) == IF arg = "None" THEN cls_uuid ELSE arg = "True"

Unpersisted == { e \in DOMAIN ents : <<S_id>> \notin DOMAIN ents[e] }

ICall(op, objs, cls_uuid, arg) ==
    [n |-> elast.n + 1, op |-> op, objs |-> objs, enabled |-> UuidEnabled(cls_uuid, arg),
     raised |-> FALSE, err |-> "", pre |-> ents, prestore |-> store]

InitInsert ==
    /\ ents = [e \in {"E2", "E3"} |-> InitEnts[e]]
    /\ store = <<OtherData>>
    /\ log = << >>
    /\ ops = << >> /\ nops = 0 /\ moved = {} /\ blast = NoBulkCall
    /\ elast = NoEntCall
    /\ IdleTerm
    /\ IdleFilter
    /\ IdleQuery

\* the body of the loop of bulk_create for one object: x._data['_id'] = _id,
\* and with use_uuid x._data['_uuid'] = digest and an UpdateOne for the store
create_one(d, id, enabled) ==
    LET d1 == PutLeaf(d, <<S_id>>, id)
    IN  IF enabled
        THEN [data |-> PutLeaf(d1, <<S_uuid>>, uuid_from_id(id)),
              updates |-> <<Op(0, "UpdateOne", (S_id :> Plain(id)), "$set",
                               (S_uuid :> Plain(uuid_from_id(id))))>>]
        ELSE [data |-> d1, updates |-> << >>]

\* entity.insert(use_uuid=arg): insert_one, then _insert_uuid, which sets
\* _uuid through __setitem__ only when the data has none
Insert(e, cls_uuid, arg) ==
    /\ CanEntCall
    /\ e \in Unpersisted
    /\ LET id == NewId(store)
           d1 == PutLeaf(ents[e], <<S_id>>, id)
           st1 == Append(store, d1)
           flt == (S_id :> Plain(id))
           fields == (S_uuid :> Plain(uuid_from_id(id)))
       IN  IF UuidEnabled(cls_uuid, arg) /\ <<S_uuid>> \notin DOMAIN d1
           THEN /\ store' = coll_update(st1, flt, "$set", fields).store
                /\ log' = Append(log, UpdateCall(e, flt, "$set", fields))
                /\ ents' = [ents EXCEPT
                              ![e] = set_nested(d1, S_uuid, uuid_from_id(id)).data]
           ELSE /\ store' = st1
                /\ ents' = [ents EXCEPT ![e] = d1]
                /\ UNCHANGED log
    /\ elast' = ICall("insert", <<e>>, cls_uuid, arg)
    /\ UNCHANGED <<ops, nops, moved, blast>>
    /\ UNCHANGED <<termVars, filterVars, queryVars>>

\* the documents insert_many stores: the data of each object under a new _id
RECURSIVE InsertMany(_, _, _)
InsertMany(st, data, objs) ==
    IF objs = << >> THEN st
    ELSE InsertMany(Append(st, PutLeaf(data[Head(objs)], <<S_id>>, NewId(st))),
                    data, Tail(objs))

\* the loop of bulk_create over the objects, ids in the order of insertion
RECURSIVE CreateLoop(_, _, _, _)
CreateLoop(acc, objs, nextid, enabled) ==
    IF objs = << >> THEN acc
    ELSE LET e == Head(objs)
             r == create_one(acc.data[e], IntV(nextid), enabled)
         IN  CreateLoop([data |-> [acc.data EXCEPT ![e] = r.data],
                         updates |-> acc.updates \o r.updates],
                        Tail(objs), nextid + 1, enabled)

\* klass.bulk_create(objs, use_uuid=arg)
BulkCreate(objs, cls_uuid, arg) ==
    /\ CanEntCall
    /\ \A i \in DOMAIN objs : objs[i] \in Unpersisted
    /\ LET enabled == UuidEnabled(cls_uuid, arg)
           st1 == InsertMany(store, ents, objs)
           r == CreateLoop([data |-> ents, updates |-> << >>], objs,
                           NewId(store).n, enabled)
       IN  /\ ents' = r.data
           /\ store' = bulk_write(st1, r.updates)
           /\ log' = log \o [i \in 1..Len(save_writes(r.updates)) |->
                               [by |-> "klass", ops |-> r.updates]]
    /\ elast' = ICall("bulk_create", objs, cls_uuid, arg)
    /\ UNCHANGED <<ops, nops, moved, blast>>
    /\ UNCHANGED <<termVars, filterVars, queryVars>>

CreateLists == { << >>, <<"E2">>, <<"E3">>, <<"E2", "E3">>, <<"E3", "E2">> }

NextInsert ==
    \/ \E e \in {"E2", "E3"}, c \in BOOLEAN, a \in UuidArgs : Insert(e, c, a)
    \/ \E objs \in CreateLists, c \in BOOLEAN, a \in UuidArgs : BulkCreate(objs, c, a)

SpecInsert == InitInsert /\ [][NextInsert]_vars

\* the _uuid the claim prescribes for entity e after the last call
UuidAsClaimed(e) ==
    /\ <<S_uuid>> \in DOMAIN ents[e]
    /\ IF <<S_uuid>> \in DOMAIN elast.pre[e]
       THEN ents[e][<<S_uuid>>] = elast.pre[e][<<S_uuid>>]
       ELSE ents[e][<<S_uuid>>] = Leaf(uuid_from_id(ents[e][<<S_id>>].v))
    /\ StoredDoc(store, ents[e]) # NoneData
    /\ <<S_uuid>> \in DOMAIN StoredDoc(store, ents[e])
    /\ StoredDoc(store, ents[e])[<<S_uuid>>] = ents[e][<<S_uuid>>]

(***************************************************************************)
(* C20: after an entity is persisted with secondary identifiers enabled,   *)
(* through insert() or through bulk_create(), its _uuid equals the         *)
(* digest-derived value of its _id if it had no _uuid before persistence,  *)
(* and equals the pre-assigned _uuid otherwise; in both cases the          *)
(* in-memory _uuid equals the _uuid stored in the document.                *)
(***************************************************************************)
C20_UuidAfterPersist ==
    (elast.op \in {"insert", "bulk_create"} /\ elast.enabled) =>
        \A i \in DOMAIN elast.objs : UuidAsClaimed(elast.objs[i])

\* the same, for insert() alone
C20_UuidAfterInsert ==
    (elast.op = "insert" /\ elast.enabled) =>
        \A i \in DOMAIN elast.objs : UuidAsClaimed(elast.objs[i])

(***************************************************************************)
(* Lookups by identifier: map_by_ids and map_by_uuids over a collection    *)
(* that holds some of the documents {_id: i, _uuid: u}.  An identifier is  *)
(* passed in its native form (ObjectId, UUID) or as a string, a uuid also  *)
(* as an integer; the form is part of the key of the returned mapping.     *)
(***************************************************************************)
MaxIds == 2
MaxArgs == 2

Ident(form, n) == [form |-> form, n |-> n]

\* ObjectId(_id) if isinstance(_id, six.string_types) else _id
to_object_id(i) == IF i.form = "str" THEN Ident("native", i.n) ELSE i

\* to_uuid(val): a UUID stays, an int and a string become the UUID
to_uuid(i) == IF i.form = "native" THEN i ELSE Ident("native", i.n)

\* the document whose _id is i; its _uuid counts the other way
IdDoc(i) ==
    (<<S_id>> :> Leaf(IntV(i))) @@ (<<S_uuid>> :> Leaf(IntV(MaxIds + 1 - i)))

RECURSIVE IdStores(_)
IdStores(n) ==
    IF n = 0 THEN { << >> }
    ELSE LET R == IdStores(n - 1)
         IN  R \cup { Append(r, IdDoc(n)) : r \in R }

\* {conv(g): g for g in ids}: a later identifier replaces an earlier one
\* under the same key, the key keeps its place
RECURSIVE IdMap(_, _, _)
IdMap(acc, conv, ids) ==
    IF ids = << >> THEN acc
    ELSE LET k == conv[Head(ids)]
         IN  IdMap([keys |-> IF k \in DOMAIN acc.map THEN acc.keys
                             ELSE Append(acc.keys, k),
                    map |-> [x \in DOMAIN acc.map \cup {k} |->
                               IF x = k THEN Head(ids) ELSE acc.map[x]]],
                   conv, Tail(ids))

\* for record in lst: results[id_map[record[field]]] = record
RECURSIVE MapLoop(_, _, _, _)
MapLoop(results, lst, field, idmap) ==
    IF lst = << >> THEN results
    ELSE LET record == Head(lst)
             orig == idmap[Ident("native", getitem(record, field).node.v.n)]
         IN  MapLoop([results EXCEPT ![orig] = record], Tail(lst), field, idmap)

\* the body shared by map_by_ids and map_by_uuids
map_by(st, field, conv, ids) ==
    LET m == IdMap([keys |-> << >>, map |-> << >>], conv, ids)
        query == build_query(<<Kw(field \o <<"_", "_", "i", "n">>,
                                  ListV([j \in DOMAIN m.keys |-> m.keys[j].n]))>>).query
        lst == find(st, query)
    IN  MapLoop([i \in Range(ids) |-> NoneData], lst, field, m.map)

IdForms == {"native", "str"}
UuidForms == {"native", "int", "str"}
IdArgs == UNION { [1..k -> { Ident(f, n) : f \in IdForms, n \in 1..MaxIds }] : k \in 0..MaxArgs }
UuidArgsIn == UNION { [1..k -> { Ident(f, n) : f \in UuidForms, n \in 1..MaxIds }] : k \in 0..MaxArgs }

map_by_ids(st, ids) ==
    map_by(st, S_id, [i \in Range(ids) |-> to_object_id(i)], ids)

map_by_uuids(st, uuids) ==
    map_by(st, S_uuid, [i \in Range(uuids) |-> to_uuid(i)], uuids)

MCall(op, field, ids, ret) ==
    [op |-> op, n |-> 0, field |-> field, ids |-> ids, ret |-> ret]

InitMap ==
    /\ store \in IdStores(MaxIds)
    /\ ents = << >> /\ ops = << >> /\ log = << >>
    /\ nops = 0 /\ moved = {} /\ blast = NoBulkCall
    /\ elast = NoEntCall
    /\ IdleTerm
    /\ IdleFilter
    /\ IdleQuery

\* a lookup leaves the collection as it is: one call in a run shows them all
FirstCall == elast.op = "none"

\* klass.map_by_ids(ids)
MapByIds(ids) ==
    /\ FirstCall
    /\ elast' = MCall("map_by_ids", S_id, ids, map_by_ids(store, ids))
    /\ UNCHANGED <<ents, ops, log, store, nops, moved, blast>>
    /\ UNCHANGED <<termVars, filterVars, queryVars>>

\* klass.map_by_uuids(uuids)
MapByUuids(uuids) ==
    /\ FirstCall
    /\ elast' = MCall("map_by_uuids", S_uuid, uuids, map_by_uuids(store, uuids))
    /\ UNCHANGED <<ents, ops, log, store, nops, moved, blast>>
    /\ UNCHANGED <<termVars, filterVars, queryVars>>

NextMap ==
    \/ \E ids \in IdArgs : MapByIds(ids)
    \/ \E uuids \in UuidArgsIn : MapByUuids(uuids)

SpecMap == InitMap /\ [][NextMap]_vars

\* the stored documents that the passed identifier i identifies
Identified(i) ==
    { j \in DOMAIN store : store[j][<<elast.field>>].v.n = i.n }

\* the mapping of the last call holds, for the passed identifier i, the
\* document it identifies, or None when it identifies none
MapsToItsDocument(i) ==
    IF Identified(i) = {} THEN elast.ret[i] = NoneData
    ELSE \E j \in Identified(i) : elast.ret[i] = store[j]

(***************************************************************************)
(* C21: map_by_ids(ids) and map_by_uuids(uuids) return a mapping whose     *)
(* key set is exactly the passed identifiers, in the form passed; every    *)
(* passed identifier that identifies a stored document maps to the entity  *)
(* for that document and every other one maps to None, including when the  *)
(* same identifier is passed more than once in different forms.            *)
(***************************************************************************)
C21_MapByIdentifiers ==
    elast.op \in {"map_by_ids", "map_by_uuids"} =>
        /\ DOMAIN elast.ret = Range(elast.ids)
        /\ \A i \in Range(elast.ids) : MapsToItsDocument(i)

\* the same, for calls that pass no identifier in two forms
C21_MapByDistinctIdentifiers ==
    (/\ elast.op \in {"map_by_ids", "map_by_uuids"}
     /\ \A i, k \in Range(elast.ids) : i.n = k.n => i = k) =>
        /\ DOMAIN elast.ret = Range(elast.ids)
        /\ \A i \in Range(elast.ids) : MapsToItsDocument(i)

(***************************************************************************)
(* Grouping: QuerySet.map(term) over a collection of up to MaxGroupDocs    *)
(* documents {_id: i} or {_id: i, a: n}.                                   *)
(***************************************************************************)
MaxGroupDocs == 3

GroupDocs(i) ==
    { (<<S_id>> :> Leaf(IntV(i))) } \cup { LookupDoc(i, v) : v \in 0..MaxVal }

RECURSIVE GroupStores(_)
GroupStores(n) ==
    IF n = 0 THEN { << >> }
    ELSE LET R == GroupStores(n - 1)
         IN  R \cup { Append(r, d) : r \in { x \in R : Len(x) = n - 1 },
                                     d \in GroupDocs(n) }

\* QuerySet.list(): the instances of the documents coll.find gives
list(st, flt) == find(st, flt)

\* mapped[val].append(result) written as an insert at the front
group_prepend(mapped, value, result) ==
    [x \in DOMAIN mapped \cup {value} |->
       IF x = value
       THEN <<result>> \o (IF value \in DOMAIN mapped THEN mapped[value] ELSE << >>)
       ELSE mapped[x]]

\* if val not in mapped: mapped[val] = []; then mapped[val].append(result)
group_append(mapped, value, result) ==
    [x \in DOMAIN mapped \cup {value} |->
       IF x = value
       THEN (IF value \in DOMAIN mapped THEN mapped[value] ELSE << >>) \o <<result>>
       ELSE mapped[x]]

\* the loop of QuerySet.map over the listed results; result[term] raises
\* KeyError for a result without the term
RECURSIVE MapGroups(_, _, _)
MapGroups(mapped, curs, field) ==
    IF curs = << >> THEN [raised |-> FALSE, err |-> "", ret |-> mapped]
    ELSE LET value == getitem(Head(curs), field)
         IN  IF value.raised THEN [raised |-> TRUE, err |-> "KeyError", ret |-> << >>]
             ELSE MapGroups(group_append(mapped, value.node.v.n, Head(curs)),
                            Tail(curs), field)

\* QuerySet.map(term)
map(st, flt, field) == MapGroups(<< >>, list(st, flt), field)

GCall(kw, field, res) ==
    [op |-> "map", n |-> 0, kw |-> kw, term |-> field,
     query |-> build_query(kw).query,
     raised |-> res.raised, err |-> res.err, ret |-> res.ret]

InitGroup ==
    /\ store \in GroupStores(MaxGroupDocs)
    /\ ents = << >> /\ ops = << >> /\ log = << >>
    /\ nops = 0 /\ moved = {} /\ blast = NoBulkCall
    /\ elast = NoEntCall
    /\ IdleTerm
    /\ IdleFilter
    /\ IdleQuery

\* klass.filter(kw).map(term)
Map(kw, field) ==
    /\ elast' = GCall(kw, field, map(store, build_query(kw).query, field))
    /\ UNCHANGED <<ents, ops, log, store, nops, moved, blast>>
    /\ UNCHANGED <<termVars, filterVars, queryVars>>

GroupKws == { << >>, <<Kw(T_a_gt, IntV(0))>>, <<Kw(T_a_lte, IntV(MaxVal))>> }
GroupTerms == { F_a, S_id }

NextGroup == \E kw \in GroupKws, field \in GroupTerms : Map(kw, field)

SpecGroup == InitGroup /\ [][NextGroup]_vars

\* the listed results of the query of the last call
Listed == list(store, elast.query)

\* the value of the term of the last call in the listed result j
TermOf(j) == getitem(Listed[j], elast.term).node.v.n

(***************************************************************************)
(* C22: map(term) returns a mapping whose keys are exactly the distinct    *)
(* values of term among the query's listed results; each result appears in *)
(* exactly one group, the one keyed by its term value, and within each     *)
(* group the results keep the relative order of the listed sequence: each  *)
(* group is the listed sequence without the results of another value.      *)
(***************************************************************************)
C22_MapGroups ==
    (elast.op = "map" /\ ~elast.raised) =>
        /\ DOMAIN elast.ret = { TermOf(j) : j \in DOMAIN Listed }
        /\ \A v \in DOMAIN elast.ret :
              elast.ret[v] = RemoveAt(Listed, { j \in DOMAIN Listed : TermOf(j) # v })

\* a map of a filtered query with two groups, one of them made of the first
\* and the third listed result
C22_Witness ==
    /\ elast.op = "map" /\ ~elast.raised
    /\ elast.kw # << >>
    /\ Len(Listed) = 3
    /\ \E v, w \in DOMAIN elast.ret :
          v # w /\ elast.ret[v] = <<Listed[1], Listed[3]>>

(***************************************************************************)
(* The reference resolver: entity.ref(), deref_single and deref_many, as   *)
(* the specification describes them (section 4.5).  Two collections are    *)
(* registered; here the store maps each registered name to its documents.  *)
(* A reference is a mapping with the keys _dref and _coll, either of which *)
(* may be missing; an identifier carries its kind, as a UUID and an        *)
(* ObjectId do.                                                            *)
(***************************************************************************)
MaxRefs == 2

Registry == {"authors", "books"}

K_dref == "_dref"
K_coll == "_coll"

\* an author with the primary identifier only, authors and a book with both
RefEnts ==
    [A1 |-> [coll |-> "authors", data |-> (<<S_id>> :> Leaf(IntV(1)))],
     A2 |-> [coll |-> "authors",
             data |-> (<<S_id>> :> Leaf(IntV(2))) @@ (<<S_uuid>> :> Leaf(IntV(12)))],
     A3 |-> [coll |-> "authors",
             data |-> (<<S_id>> :> Leaf(IntV(3))) @@ (<<S_uuid>> :> Leaf(IntV(13)))],
     B1 |-> [coll |-> "books",
             data |-> (<<S_id>> :> Leaf(IntV(1))) @@ (<<S_uuid>> :> Leaf(IntV(11)))]]

\* the sub-sequences of a sequence
RECURSIVE SubSeqs(_)
SubSeqs(q) ==
    IF q = << >> THEN { << >> }
    ELSE LET R == SubSeqs(Tail(q))
         IN  R \cup { <<Head(q)>> \o r : r \in R }

RefStores ==
    { [authors |-> a, books |-> b] :
        a \in SubSeqs(<<RefEnts.A1.data, RefEnts.A2.data, RefEnts.A3.data>>),
        b \in SubSeqs(<<RefEnts.B1.data>>) }

\* a reference that always carries the primary identifier
make_reference_primary(data, coll) ==
    (K_dref :> Ident("id", data[<<S_id>>].v.n)) @@ (K_coll :> coll)

\* make_reference(entity): the secondary identifier if present, else the
\* primary one, and the collection name
make_reference(data, coll) ==
    (K_dref :> (IF <<S_uuid>> \in DOMAIN data
                THEN Ident("uuid", data[<<S_uuid>>].v.n)
                ELSE Ident("id", data[<<S_id>>].v.n)))
    @@ (K_coll :> coll)

\* the field a lookup by an identifier of this kind reads
RefField(kind) == IF kind = "uuid" THEN S_uuid ELSE S_id

\* resolve_single(ref)
resolve_single(st, ref) ==
    IF K_dref \notin DOMAIN ref \/ K_coll \notin DOMAIN ref
    THEN Raised("DongoDerefError")
    ELSE IF ref[K_coll] \notin Registry THEN Raised("DongoDerefError")
    ELSE first(st[ref[K_coll]],
               (RefField(ref[K_dref].form) :> Plain(IntV(ref[K_dref].n))))

\* the collection names of the references, "" for a missing one
CollsOf(refs) ==
    { IF K_coll \in DOMAIN refs[i] THEN refs[i][K_coll] ELSE "" : i \in DOMAIN refs }

\* the batched lookup of resolve_many: a result set over one collection
ResultSet(coll, refs) ==
    [coll |-> coll,
     query |-> build_query(<<Kw(RefField(refs[1][K_dref].form) \o <<"_", "_", "i", "n">>,
                               ListV([i \in DOMAIN refs |-> refs[i][K_dref].n]))>>).query]

\* a resolve_many that takes the collection of the first reference
resolve_many_first(st, refs) ==
    IF \E i \in DOMAIN refs : K_dref \notin DOMAIN refs[i]
    THEN [raised |-> TRUE, err |-> "DongoDerefError", ret |-> << >>]
    ELSE LET coll == IF K_coll \in DOMAIN refs[1] THEN refs[1][K_coll] ELSE ""
         IN  IF coll \notin Registry
             THEN [raised |-> TRUE, err |-> "DongoDerefError", ret |-> << >>]
             ELSE [raised |-> FALSE, err |-> "", ret |-> ResultSet(coll, refs)]

\* resolve_many(refs)
resolve_many(st, refs) ==
    IF \E i \in DOMAIN refs : K_dref \notin DOMAIN refs[i]
    THEN [raised |-> TRUE, err |-> "DongoDerefError", ret |-> << >>]
    ELSE IF Cardinality(CollsOf(refs)) > 1
    THEN [raised |-> TRUE, err |-> "DongoDerefError", ret |-> << >>]
    ELSE LET coll == CHOOSE c \in CollsOf(refs) : TRUE
         IN  IF coll \notin Registry
             THEN [raised |-> TRUE, err |-> "DongoDerefError", ret |-> << >>]
             ELSE [raised |-> FALSE, err |-> "", ret |-> ResultSet(coll, refs)]

RCall(op, arg, res) ==
    [op |-> op, n |-> 0, arg |-> arg,
     raised |-> res.raised, err |-> res.err, ret |-> res.ret]

InitRef ==
    /\ store \in RefStores
    /\ ents = RefEnts
    /\ ops = << >> /\ log = << >>
    /\ nops = 0 /\ moved = {} /\ blast = NoBulkCall
    /\ elast = NoEntCall
    /\ IdleTerm
    /\ IdleFilter
    /\ IdleQuery

\* entity.ref()
MakeRef(e) ==
    /\ FirstCall
    /\ elast' = [op |-> "ref", n |-> 0, arg |-> e, raised |-> FALSE, err |-> "",
                 ret |-> make_reference(ents[e].data, ents[e].coll)]
    /\ UNCHANGED <<ents, ops, log, store, nops, moved, blast>>
    /\ UNCHANGED <<termVars, filterVars, queryVars>>

\* deref_single(ref)
ResolveSingle(ref) ==
    /\ FirstCall
    /\ elast' = RCall("resolve_single", ref, resolve_single(store, ref))
    /\ UNCHANGED <<ents, ops, log, store, nops, moved, blast>>
    /\ UNCHANGED <<termVars, filterVars, queryVars>>

\* deref_many(refs)
ResolveMany(refs) ==
    /\ FirstCall
    /\ elast' = RCall("resolve_many", refs, resolve_many(store, refs))
    /\ UNCHANGED <<ents, ops, log, store, nops, moved, blast>>
    /\ UNCHANGED <<termVars, filterVars, queryVars>>

\* the references of the entities, and references that are malformed, name
\* an unregistered collection, carry the other kind of identifier or the
\* identifier of no document
RefPool ==
    { make_reference(RefEnts[e].data, RefEnts[e].coll) : e \in DOMAIN RefEnts }
    \cup { (K_dref :> Ident("id", 2)) @@ (K_coll :> "authors"),
           (K_dref :> Ident("id", 9)) @@ (K_coll :> "authors"),
           (K_dref :> Ident("id", 1)) @@ (K_coll :> "ghosts"),
           (K_coll :> "authors"),
           (K_dref :> Ident("id", 1)),
           << >> }

\* the non-empty lists of references whose identifiers are of one kind: the
\* batched lookup is by the common identifier kind
RefLists ==
    { refs \in UNION { [1..k -> RefPool] : k \in 1..MaxRefs } :
        \A i, j \in DOMAIN refs :
            (K_dref \in DOMAIN refs[i] /\ K_dref \in DOMAIN refs[j])
                => refs[i][K_dref].form = refs[j][K_dref].form }

NextRef ==
    \/ \E e \in DOMAIN RefEnts : MakeRef(e)
    \/ \E ref \in RefPool : ResolveSingle(ref)
    \/ \E refs \in RefLists : ResolveMany(refs)

SpecRef == InitRef /\ [][NextRef]_vars

\* the documents of collection c that the reference identifies
RefDocs(c, ref) ==
    { j \in DOMAIN store[c] :
        /\ <<RefField(ref[K_dref].form)>> \in DOMAIN store[c][j]
        /\ store[c][j][<<RefField(ref[K_dref].form)>>].v.n = ref[K_dref].n }

WellFormed(ref) == K_dref \in DOMAIN ref /\ K_coll \in DOMAIN ref

C24_ReferenceRoundTrip ==
    /\ elast.op = "ref" =>
          LET e == ents[elast.arg]
          IN  /\ DOMAIN elast.ret = {K_dref, K_coll}
              /\ elast.ret[K_coll] = e.coll
              /\ elast.ret[K_dref] =
                    IF <<S_uuid>> \in DOMAIN e.data
                    THEN Ident("uuid", e.data[<<S_uuid>>].v.n)
                    ELSE Ident("id", e.data[<<S_id>>].v.n)
    /\ elast.op = "resolve_single" =>
          LET ref == elast.arg
          IN  /\ (~WellFormed(ref) \/ (WellFormed(ref) /\ ref[K_coll] \notin Registry))
                    => (elast.raised /\ elast.err = "DongoDerefError")
              /\ \A e \in DOMAIN ents :
                    (/\ ref = make_reference(ents[e].data, ents[e].coll)
                     /\ \E j \in DOMAIN store[ents[e].coll] :
                           store[ents[e].coll][j] = ents[e].data)
                    => (~elast.raised /\ elast.ret = ents[e].data)

\* the reference of a stored entity with a secondary identifier was resolved
\* in a collection that holds another document
C24_Witness ==
    /\ elast.op = "resolve_single" /\ ~elast.raised
    /\ elast.arg = make_reference(ents["A2"].data, "authors")
    /\ elast.ret = ents["A2"].data
    /\ Len(store.authors) >= 2

====
